---- MODULE Spec2Model ----
(***************************************************************************)
(* Model of pvtlib's AGA8 property layer (src/pvtlib/aga8.py): the unit    *)
(* converters, the composition mapper to_aga8_composition, the four query  *)
(* operations of class AGA8 and the composition mixer AGA8.mix.            *)
(*                                                                         *)
(* Floating-point numbers are modelled as exact rationals over arbitrary   *)
(* precision integers, plus the value NaN, which every arithmetic          *)
(* operation propagates.  Values the external equation-of-state engine     *)
(* (pyaga8) computes are uninterpreted terms of the inputs the engine      *)
(* holds when it computes them.                                            *)
(***************************************************************************)
EXTENDS Integers, Sequences, FiniteSets, TLC

VARIABLES
    op,       \* the operation the caller invokes
    args,     \* its arguments
    pc,       \* "call" before the operation has run, "done" after
    result,   \* the outcome: a returned value or a raised exception
    adapter   \* the fields of the pyaga8 engine object held by the AGA8 instance

vars == <<op, args, pc, result, adapter>>

(***************************************************************************)
(* Arbitrary precision naturals: little-endian sequences of limbs in base  *)
(* 10^4 without leading zero limbs; <<>> is zero.                          *)
(***************************************************************************)
Base == 10 * 1000

\* a function given by a rule, tabulated over its domain
Table(f) == f @@ <<>>
\* F applied to e, with e computed first, as a statement that assigns e to a
\* local before the next statement reads it
With(e, F(_)) == CHOOSE r \in {F(x) : x \in {e}} : TRUE

Rest(s) == IF s = <<>> THEN <<>> ELSE Tail(s)
Limb(s) == IF s = <<>> THEN 0 ELSE Head(s)

RECURSIVE BNat(_)
BNat(i) == IF i = 0 THEN <<>> ELSE <<i % Base>> \o BNat(i \div Base)

RECURSIVE BNorm(_)
BNorm(a) == IF a = <<>> THEN <<>>
            ELSE IF a[Len(a)] = 0 THEN BNorm(SubSeq(a, 1, Len(a) - 1))
            ELSE a

RECURSIVE BAddC(_, _, _)
BAddC(a, b, c) ==
    IF a = <<>> /\ b = <<>> THEN (IF c = 0 THEN <<>> ELSE <<c>>)
    ELSE LET s == Limb(a) + Limb(b) + c
         IN  <<s % Base>> \o BAddC(Rest(a), Rest(b), s \div Base)

BAdd(a, b) == BAddC(a, b, 0)

\* a - b - c for a >= b + c, not normalised
RECURSIVE BSubC(_, _, _)
BSubC(a, b, c) ==
    IF a = <<>> THEN <<>>
    ELSE LET s == Limb(a) - Limb(b) - c
         IN  IF s < 0 THEN <<s + Base>> \o BSubC(Rest(a), Rest(b), 1)
             ELSE <<s>> \o BSubC(Rest(a), Rest(b), 0)

BSub(a, b) == BNorm(BSubC(a, b, 0))

\* -1, 0, 1 as a < b, a = b, a > b, comparing from the most significant limb
RECURSIVE BCmpFrom(_, _, _)
BCmpFrom(a, b, i) ==
    IF i = 0 THEN 0
    ELSE IF a[i] < b[i] THEN -1
    ELSE IF a[i] > b[i] THEN 1
    ELSE BCmpFrom(a, b, i - 1)

BCmp(a, b) ==
    IF Len(a) < Len(b) THEN -1
    ELSE IF Len(a) > Len(b) THEN 1
    ELSE BCmpFrom(a, b, Len(a))

RECURSIVE BMulSmall(_, _, _)
BMulSmall(a, k, c) ==
    IF a = <<>> THEN (IF c = 0 THEN <<>> ELSE <<c>>)
    ELSE LET s == Head(a) * k + c
         IN  <<s % Base>> \o BMulSmall(Tail(a), k, s \div Base)

\* a times Base^k
RECURSIVE BShift(_, _)
BShift(a, k) == IF a = <<>> \/ k = 0 THEN a ELSE <<0>> \o BShift(a, k - 1)

\* the product, halving b so that the recursion stays shallow
RECURSIVE BMul(_, _)
BMul(a, b) ==
    IF a = <<>> \/ b = <<>> THEN <<>>
    ELSE IF Len(b) = 1 THEN BMulSmall(a, b[1], 0)
    ELSE LET h == Len(b) \div 2
         IN  BAdd(BMul(a, SubSeq(b, 1, h)),
                  BShift(BMul(a, BNorm(SubSeq(b, h + 1, Len(b)))), h))

BOne == <<1>>

(***************************************************************************)
(* Signed integers [s, m]: sign s in {-1, 0, 1} and magnitude m.           *)
(***************************************************************************)
ZMk(s, m) == IF m = <<>> THEN [s |-> 0, m |-> <<>>] ELSE [s |-> s, m |-> m]
ZInt(i) == IF i < 0 THEN ZMk(-1, BNat(-i)) ELSE ZMk(1, BNat(i))
ZNeg(a) == ZMk(-a.s, a.m)
ZMul(a, b) == ZMk(a.s * b.s, BMul(a.m, b.m))
ZAdd(a, b) ==
    IF a.s = 0 THEN b
    ELSE IF b.s = 0 THEN a
    ELSE IF a.s = b.s THEN ZMk(a.s, BAdd(a.m, b.m))
    ELSE LET c == BCmp(a.m, b.m)
         IN  IF c = 0 THEN ZMk(0, <<>>)
             ELSE IF c > 0 THEN ZMk(a.s, BSub(a.m, b.m))
             ELSE ZMk(b.s, BSub(b.m, a.m))
ZSub(a, b) == ZAdd(a, ZNeg(b))

(***************************************************************************)
(* Floating-point values: a rational [k |-> "num", n, d] with signed       *)
(* numerator n and positive denominator d, or NaN.                         *)
(***************************************************************************)
NaN == [k |-> "nan"]
Num(n, d) == [k |-> "num", n |-> n, d |-> d]
Q(i, j) == Num(ZInt(i), BNat(j))      \* the number i / j, j > 0
R(i) == Q(i, 1)
IsNaN(x) == x.k = "nan"
IsNum(x) == x.k = "num"

Sign(x) == x.n.s
NumCmp(x, y) == ZSub(ZMul(x.n, ZMk(1, y.d)), ZMul(y.n, ZMk(1, x.d))).s
NumEq(x, y) == NumCmp(x, y) = 0

\* equality of values as mathematical numbers; NaN equals nothing but is NaN
Same(x, y) ==
    IF IsNum(x) /\ IsNum(y) THEN NumEq(x, y) ELSE x = y

NumAdd(x, y) ==
    Num(ZAdd(IF x.d = y.d THEN x.n ELSE ZMul(x.n, ZMk(1, y.d)),
             IF x.d = y.d THEN y.n ELSE ZMul(y.n, ZMk(1, x.d))),
        IF x.d = y.d THEN x.d ELSE BMul(x.d, y.d))
NumNeg(x) == Num(ZNeg(x.n), x.d)
NumMul(x, y) == Num(ZMul(x.n, y.n), BMul(x.d, y.d))
\* x / y for y # 0
NumDiv(x, y) ==
    IF x.d = y.d THEN Num(ZMk(x.n.s * y.n.s, x.n.m), y.n.m)
    ELSE Num(ZMk(x.n.s * y.n.s, BMul(x.n.m, y.d)), BMul(x.d, y.n.m))

\* a value the engine computed, or an expression over one: an uninterpreted term
Sym(f, a) == [k |-> "sym", f |-> f, a |-> a]

FAdd(x, y) == IF IsNaN(x) \/ IsNaN(y) THEN NaN
              ELSE IF IsNum(x) /\ IsNum(y) THEN NumAdd(x, y)
              ELSE Sym("add", <<x, y>>)
FSub(x, y) == IF IsNaN(x) \/ IsNaN(y) THEN NaN
              ELSE IF IsNum(x) /\ IsNum(y) THEN NumAdd(x, NumNeg(y))
              ELSE Sym("sub", <<x, y>>)
FMul(x, y) == IF IsNaN(x) \/ IsNaN(y) THEN NaN
              ELSE IF IsNum(x) /\ IsNum(y) THEN NumMul(x, y)
              ELSE Sym("mul", <<x, y>>)
\* x / y for a divisor that is not the number zero
FDiv(x, y) == IF IsNaN(x) \/ IsNaN(y) THEN NaN
              ELSE IF IsNum(x) /\ IsNum(y) THEN NumDiv(x, y)
              ELSE Sym("div", <<x, y>>)
IsZero(x) == IsNum(x) /\ Sign(x) = 0

(***************************************************************************)
(* Outcomes of an operation: a returned value or a raised exception.       *)
(***************************************************************************)
Return(v) == [raised |-> FALSE, value |-> v]
Raise(e) == [raised |-> TRUE, exc |-> e]
None == [k |-> "none"]

(***************************************************************************)
(* Strings the code inspects character by character are sequences of       *)
(* one-character strings.  str.lower() maps the upper-case letters.        *)
(***************************************************************************)
UpperCase == <<"A", "B", "C", "D", "E", "F", "G", "H", "I", "J", "K", "L", "M",
               "N", "O", "P", "Q", "R", "S", "T", "U", "V", "W", "X", "Y", "Z">>
LowerCase == <<"a", "b", "c", "d", "e", "f", "g", "h", "i", "j", "k", "l", "m",
               "n", "o", "p", "q", "r", "s", "t", "u", "v", "w", "x", "y", "z">>
LowerChar(c) ==
    IF \E i \in DOMAIN UpperCase : UpperCase[i] = c
    THEN LowerCase[CHOOSE i \in DOMAIN UpperCase : UpperCase[i] = c]
    ELSE c
\* a variant that matches unit strings case-sensitively
lower_as_written(s) == s
lower(s) == Table([i \in DOMAIN s |-> LowerChar(s[i])])

(***************************************************************************)
(* Unit conversion (aga8.py, _pressure_unit_conversion and                 *)
(* _temperature_unit_conversion).                                          *)
(***************************************************************************)
\* the literals of the two converters
KPA_PER_BAR == R(100)
PA_PER_KPA == R(1000)
KPA_PER_PSI == Q(689476, 100000)          \* 6.89476
ATM_PSI == Q(146959488, 10000000)         \* 14.6959488
ATM_KPA == Q(101325, 1000)                \* 101.325
KPA_PER_MPA == R(1000)
KELVIN_OFFSET == Q(27315, 100)            \* 273.15

pressure_unit_conversion(pressure_value, pressure_unit) ==
    LET u == lower(pressure_unit) IN
    IF u = <<"b", "a", "r", "a">> THEN Return(FMul(pressure_value, KPA_PER_BAR))
    ELSE IF u = <<"p", "a">> THEN Return(FDiv(pressure_value, PA_PER_KPA))
    ELSE IF u = <<"p", "s", "i">> THEN Return(FMul(pressure_value, KPA_PER_PSI))
    ELSE IF u = <<"p", "s", "i", "a">>
        THEN Return(FMul(FAdd(pressure_value, ATM_PSI), KPA_PER_PSI))
    ELSE IF u = <<"p", "s", "i", "g">>
        THEN Return(FAdd(FMul(pressure_value, KPA_PER_PSI), ATM_KPA))
    ELSE IF u = <<"b", "a", "r", "g">>
        THEN Return(FAdd(FMul(pressure_value, KPA_PER_BAR), ATM_KPA))
    ELSE IF u = <<"m", "p", "a">> THEN Return(FMul(pressure_value, KPA_PER_MPA))
    ELSE IF u = <<"k", "p", "a">> THEN Return(pressure_value)
    ELSE Raise("Exception")

temperature_unit_conversion(temperature_value, temperature_unit) ==
    LET u == lower(temperature_unit) IN
    IF u = <<"c">> THEN Return(FAdd(temperature_value, KELVIN_OFFSET))
    ELSE IF u = <<"f">>
        THEN Return(FAdd(FDiv(FMul(FSub(temperature_value, R(32)), R(5)), R(9)),
                         KELVIN_OFFSET))
    ELSE IF u = <<"k">> THEN Return(temperature_value)
    ELSE Raise("Exception")

(***************************************************************************)
(* Composition mapper (aga8.py, to_aga8_composition).  A composition dict  *)
(* is the sequence of its <<key, value>> items in insertion order, with    *)
(* distinct keys; the dict the mapper builds is a function of its keys.    *)
(***************************************************************************)
aga8_component_list ==
    << <<"C", "1">>, <<"N", "2">>, <<"C", "O", "2">>, <<"C", "2">>, <<"C", "3">>,
       <<"i", "C", "4">>, <<"n", "C", "4">>, <<"i", "C", "5">>, <<"n", "C", "5">>,
       <<"n", "C", "6">>, <<"n", "C", "7">>, <<"n", "C", "8">>, <<"n", "C", "9">>,
       <<"n", "C", "1", "0">>, <<"H", "2">>, <<"O", "2">>, <<"C", "O">>,
       <<"H", "2", "O">>, <<"H", "2", "S">>, <<"H", "e">>, <<"A", "r">> >>

Aga8Names == {aga8_component_list[i] : i \in DOMAIN aga8_component_list}

Digits == <<"0", "1", "2", "3", "4", "5", "6", "7", "8", "9">>
isnumeric(c) == \E i \in DOMAIN Digits : Digits[i] = c
DigitValue(c) == (CHOOSE i \in DOMAIN Digits : Digits[i] = c) - 1
IsDigits(s) == s # <<>> /\ \A i \in DOMAIN s : isnumeric(s[i])

\* int(s) for a string of decimal digits
RECURSIVE int(_)
int(s) == IF s = <<>> THEN 0
          ELSE 10 * int(SubSeq(s, 1, Len(s) - 1)) + DigitValue(s[Len(s)])

\* str(n) for 0 <= n <= 9
str(n) == <<Digits[n + 1]>>

\* component.split(sep='-')[0]
RECURSIVE split_first(_)
split_first(s) ==
    IF s = <<>> THEN <<>>
    ELSE IF Head(s) = "-" THEN <<>>
    ELSE <<Head(s)>> \o split_first(Tail(s))

Values(composition) == Table([i \in DOMAIN composition |-> composition[i][2]])
Keys(composition) == {composition[i][1] : i \in DOMAIN composition}

\* acc + vs[lo] + ... + vs[hi], added from left to right; a NaN stays NaN.
\* The range is halved so that the evaluation stays shallow.
RECURSIVE SumRange(_, _, _, _)
SumRange(acc, vs, lo, hi) ==
    IF IsNaN(acc) \/ lo > hi THEN acc
    ELSE IF lo = hi THEN FAdd(acc, vs[lo])
    ELSE SumRange(SumRange(acc, vs, lo, (lo + hi) \div 2), vs, (lo + hi) \div 2 + 1, hi)

\* sum(values): starts from the integer 0
sum(vs) == SumRange(R(0), vs, 1, Len(vs))

DictSet(dict, key, value) == (key :> value) @@ dict

\* a variant that lumps only the carbon numbers above ten into nC10
CarbonNumberKey_above_ten(comp_name, Cn) ==
    IF Cn \in {6, 7, 8, 9} THEN <<"n", "C">> \o str(Cn)
    ELSE IF Cn > 10 THEN <<"n", "C", "1", "0">>
    ELSE comp_name

\* the dict key a carbon-number name Cn... is assigned to
CarbonNumberKey(comp_name, Cn) ==
    IF Cn \in {6, 7, 8, 9} THEN <<"n", "C">> \o str(Cn)
    ELSE IF Cn >= 10 THEN <<"n", "C", "1", "0">>
    ELSE comp_name

\* the key comp_name is assigned to, or the exception the name raises
KeyOf(comp_name) ==
    IF comp_name = <<>> THEN Raise("IndexError")
    ELSE IF comp_name[1] = "C" /\ Len(comp_name) = 1 THEN Raise("IndexError")
    ELSE IF comp_name[1] = "C" /\ isnumeric(comp_name[2]) THEN
        IF ~IsDigits(Tail(comp_name)) THEN Raise("ValueError")
        ELSE Return(CarbonNumberKey(comp_name, int(Tail(comp_name))))
    ELSE IF comp_name \in Aga8Names THEN Return(comp_name)
    ELSE Raise("Exception")

TargetKey(component) == KeyOf(split_first(component))

\* the loop over composition.items() from item i on, dict built so far
RECURSIVE AssignItems(_, _, _, _)
RECURSIVE AssignItem(_, _, _, _, _)
AssignItems(composition, composition_sum, i, dict) ==
    IF i > Len(composition) THEN Return(dict)
    ELSE IF IsZero(composition_sum) THEN Raise("ZeroDivisionError")
    ELSE AssignItem(composition, composition_sum, i, dict, TargetKey(composition[i][1]))

AssignItem(composition, composition_sum, i, dict, target) ==
    IF target.raised THEN target
    ELSE AssignItems(composition, composition_sum, i + 1,
                     DictSet(dict, target.value,
                             FDiv(composition[i][2], composition_sum)))

\* the pyaga8.Composition object: one field per AGA8 component
Aga8Fluid(dict) == Table([c \in Aga8Names |-> dict[c]])

\* Aga8fluid, Aga8fluidDict
Mapped(filled) ==
    IF filled.raised THEN filled
    ELSE Return([fluid |-> Aga8Fluid(filled.value), dict |-> filled.value])

to_aga8_composition(composition) ==
    Mapped(AssignItems(composition, sum(Values(composition)), 1,
                       Table([c \in Aga8Names |-> R(0)])))

(***************************************************************************)
(* The AGA8 instance (aga8.py, class AGA8): the equation, its molecular    *)
(* weight table and the pyaga8 engine object.  The engine is external: it  *)
(* holds the composition and the settable fields, and what it computes is  *)
(* an uninterpreted term of the fields it holds at that moment.            *)
(***************************************************************************)
Equations == {"GERG-2008", "DETAIL"}

\* molecular weights [g/mol] times 10^6, in the order of aga8_component_list
MicroWeights(equation) ==
    IF equation = "GERG-2008"
    THEN <<16042460, 28013400, 44009500, 30069040, 44095620, 58122200, 58122200,
           72148780, 72148780, 86175360, 100201940, 114228520, 128255100,
           142281680, 2015880, 31998800, 28010100, 18015280, 34080880, 4002602,
           39948000>>
    ELSE <<16043000, 28013500, 44010000, 30070000, 44097000, 58123000, 58123000,
           72150000, 72150000, 86177000, 100204000, 114231000, 128258000,
           142285000, 2015900, 31998800, 28010000, 18015300, 34082000, 4002600,
           39948000>>

WeightsOf(micro) == Table([i \in DOMAIN micro |-> Q(micro[i], 1000 * 1000)])
molecular_weights(equation) == WeightsOf(MicroWeights(equation))

\* attributes of the engine object that it computes in calc_properties
ComputedAttrs == {"z", "u", "h", "s", "cv", "cp", "w", "g", "jt", "kappa"}
EngineAttrs == {"pressure", "temperature", "d", "mm"} \cup ComputedAttrs
\* the keys of _get_properties()
PropertyKeys == EngineAttrs \cup {"pressure_bara", "temperature_C"}

\* np.dot of two vectors, over the first i entries
RECURSIVE DotRange(_, _, _, _, _)
DotRange(acc, xs, ws, lo, hi) ==
    IF IsNaN(acc) \/ lo > hi THEN acc
    ELSE IF lo = hi THEN FAdd(acc, FMul(xs[lo], ws[lo]))
    ELSE DotRange(DotRange(acc, xs, ws, lo, (lo + hi) \div 2), xs, ws,
                  (lo + hi) \div 2 + 1, hi)
DotFrom(xs, ws, i) == DotRange(R(0), xs, ws, 1, i)

\* the engine's molar mass of the composition it holds
EngineMolarMass(ad) ==
    DotFrom(Table([i \in DOMAIN aga8_component_list |-> ad.x[aga8_component_list[i]]]),
            molecular_weights(ad.equation), Len(aga8_component_list))

NewAdapter(equation) ==
    [equation |-> equation,
     x |-> Table([c \in Aga8Names |-> R(0)]),
     attrs |-> Table([a \in EngineAttrs |-> R(0)])]

set_composition(ad, fluid) == [ad EXCEPT !.x = fluid]
SetAttr(ad, a, v) == [ad EXCEPT !.attrs[a] = v]
calc_density(ad) ==
    SetAttr(ad, "d", Sym("calc_density", <<ad.x, ad.attrs.pressure, ad.attrs.temperature>>))
calc_pressure(ad) == Sym("calc_pressure", <<ad.x, ad.attrs.d, ad.attrs.temperature>>)
calc_molar_mass(ad) == SetAttr(ad, "mm", EngineMolarMass(ad))
calc_properties(ad) ==
    [ad EXCEPT !.attrs =
        Table([a \in EngineAttrs |->
            IF a \in ComputedAttrs THEN Sym(a, <<ad.x, ad.attrs.d, ad.attrs.temperature>>)
            ELSE IF a = "mm" THEN EngineMolarMass(ad)
            ELSE ad.attrs[a]])]

get_properties(ad) ==
    Table([f \in PropertyKeys |->
        IF f = "pressure_bara" THEN FDiv(ad.attrs.pressure, R(100))
        ELSE IF f = "temperature_C" THEN FSub(ad.attrs.temperature, KELVIN_OFFSET)
        ELSE ad.attrs[f]])

AnyNaN(composition) == \E i \in DOMAIN composition : IsNaN(composition[i][2])
AllNaN(keys) == Table([f \in keys |-> NaN])

\* a call's effect: its outcome and the engine fields it leaves
Effect(out, ad) == [out |-> out, adapter |-> ad]

\* results['rho'] and results['gas_composition'] added to the properties
\* a variant that always takes the engine's molar mass
WithRho_engine_mm(results, molar_mass, Aga8fluidDict) ==
    results @@ ("rho" :> FMul(results["d"], results["mm"]))
            @@ ("gas_composition" :> Aga8fluidDict)
WithRho(results, molar_mass, Aga8fluidDict) ==
    results @@ ("rho" :> FMul(results["d"],
                              IF molar_mass = None THEN results["mm"] ELSE molar_mass))
            @@ ("gas_composition" :> Aga8fluidDict)

\* the engine set up with composition, pressure and temperature, and run
\* a variant that leaves the engine's temperature as it finds it
EnginePT_keeps_temperature(ad, fluid, pressure_kPa, temperature_K) ==
    calc_properties(calc_density(
        SetAttr(set_composition(ad, fluid), "pressure", pressure_kPa)))
EnginePT(ad, fluid, pressure_kPa, temperature_K) ==
    calc_properties(calc_density(
        SetAttr(SetAttr(set_composition(ad, fluid), "pressure", pressure_kPa),
                "temperature", temperature_K)))

\* the results dict read off the engine after it has run
Results(ad, molar_mass, Aga8fluidDict) ==
    Effect(Return(WithRho(get_properties(ad), molar_mass, Aga8fluidDict)), ad)

\* calculate_from_PT from the mapped composition on
PT_mapped(ad, composition, pressure_kPa, temperature_K, mapped, molar_mass) ==
    IF mapped.raised THEN Effect(mapped, ad)
    ELSE IF \/ IsNaN(pressure_kPa)
            \/ IsNaN(temperature_K)
            \/ AnyNaN(composition)
    THEN Effect(Return(WithRho(AllNaN(PropertyKeys), molar_mass, mapped.value.dict)), ad)
    ELSE Results(EnginePT(ad, mapped.value.fluid, pressure_kPa, temperature_K),
                 molar_mass, mapped.value.dict)

\* calculate_from_PT from the converted pressure and temperature on
PT_converted(ad, composition, pressure_kPa, temperature_K, molar_mass) ==
    IF pressure_kPa.raised THEN Effect(pressure_kPa, ad)
    ELSE IF temperature_K.raised THEN Effect(temperature_K, ad)
    ELSE PT_mapped(ad, composition, pressure_kPa.value, temperature_K.value,
                   to_aga8_composition(composition), molar_mass)

calculate_from_PT(ad, composition, pressure, temperature, pressure_unit, temperature_unit, molar_mass) ==
    PT_converted(ad, composition,
                 pressure_unit_conversion(pressure, pressure_unit),
                 temperature_unit_conversion(temperature, temperature_unit),
                 molar_mass)

\* the engine computes the pressure of the density and temperature it holds, then runs
RunRhoT(ad) == calc_properties(SetAttr(ad, "pressure", calc_pressure(ad)))
EngineRhoT(ad, molar_density, temperature_K) ==
    RunRhoT(SetAttr(SetAttr(ad, "d", molar_density), "temperature", temperature_K))

\* calculate_from_rhoT from the molar mass on; ad holds the composition
RhoT_molar(ad, mass_density, temperature_K, molar_mass, Aga8fluidDict) ==
    IF IsZero(molar_mass) THEN Effect(Return(<<>>), ad)
    ELSE Results(EngineRhoT(ad, FDiv(mass_density, molar_mass), temperature_K),
                 molar_mass, Aga8fluidDict)

\* calculate_from_rhoT once the engine holds the composition
RhoT_composed(ad, mass_density, temperature_K, molar_mass, Aga8fluidDict) ==
    IF molar_mass = None
    THEN RhoT_molar(calc_molar_mass(ad), mass_density, temperature_K,
                    EngineMolarMass(ad), Aga8fluidDict)
    ELSE RhoT_molar(ad, mass_density, temperature_K, molar_mass, Aga8fluidDict)

\* calculate_from_rhoT from the mapped composition on
RhoT_mapped(ad, composition, mass_density, temperature_K, mapped, molar_mass) ==
    IF mapped.raised THEN Effect(mapped, ad)
    ELSE IF \/ IsNaN(mass_density)
            \/ IsNaN(temperature_K)
            \/ AnyNaN(composition)
    THEN Effect(Return(AllNaN(PropertyKeys) @@ ("gas_composition" :> mapped.value.dict)),
                ad)
    ELSE RhoT_composed(set_composition(ad, mapped.value.fluid), mass_density,
                       temperature_K, molar_mass, mapped.value.dict)

\* calculate_from_rhoT from the converted temperature on
RhoT_converted(ad, composition, mass_density, temperature_K, molar_mass) ==
    IF temperature_K.raised THEN Effect(temperature_K, ad)
    ELSE RhoT_mapped(ad, composition, mass_density, temperature_K.value,
                     to_aga8_composition(composition), molar_mass)

calculate_from_rhoT(ad, composition, mass_density, temperature, temperature_unit, molar_mass) ==
    RhoT_converted(ad, composition, mass_density,
                   temperature_unit_conversion(temperature, temperature_unit),
                   molar_mass)

\* calculate_from_PH and calculate_from_PS differ only in the property whose
\* residual the root finder drives.  fsolve evaluates the residual at the
\* guess, which may raise, and emits temperature_solution.
PX_first(first, composition, pressure, pressure_unit, molar_mass, temperature_solution) ==
    IF first.out.raised THEN first
    ELSE calculate_from_PT(first.adapter, composition, pressure, temperature_solution,
                           pressure_unit, <<"C">>, molar_mass)

\* the NaN return of calculate_from_PH and calculate_from_PS
PX_nan(ad, mapped) ==
    IF mapped.raised THEN Effect(mapped, ad)
    ELSE Effect(Return(AllNaN(PropertyKeys) @@ ("gas_composition" :> mapped.value.dict)),
                ad)

PX_converted(ad, composition, pressure, pressure_kPa, target, pressure_unit, molar_mass, temperature_solution) ==
    IF pressure_kPa.raised THEN Effect(pressure_kPa, ad)
    ELSE IF \/ IsNaN(pressure_kPa.value)
            \/ IsNaN(target)
            \/ AnyNaN(composition)
    THEN PX_nan(ad, to_aga8_composition(composition))
    ELSE PX_first(calculate_from_PT(ad, composition, pressure, R(20), pressure_unit,
                                    <<"C">>, molar_mass),
                  composition, pressure, pressure_unit, molar_mass, temperature_solution)

calculate_from_PH(ad, composition, pressure, enthalpy, pressure_unit, molar_mass, temperature_solution) ==
    PX_converted(ad, composition, pressure,
                 pressure_unit_conversion(pressure, pressure_unit),
                 enthalpy, pressure_unit, molar_mass, temperature_solution)

calculate_from_PS(ad, composition, pressure, entropy, pressure_unit, molar_mass, temperature_solution) ==
    PX_converted(ad, composition, pressure,
                 pressure_unit_conversion(pressure, pressure_unit),
                 entropy, pressure_unit, molar_mass, temperature_solution)

(***************************************************************************)
(* Composition mixer (aga8.py, AGA8.mix).  numpy arrays are sequences;     *)
(* comparisons with NaN are false, as in IEEE arithmetic.  The avg_mw of a *)
(* row is positive for the non-negative compositions the model draws.      *)
(***************************************************************************)
Lt0(x) == IsNum(x) /\ Sign(x) < 0
Gt0(x) == IsNum(x) /\ Sign(x) > 0

n_components == Len(aga8_component_list)
Cols == 1 .. n_components

RaiseValueError(what, info) ==
    [raised |-> TRUE, exc |-> "ValueError", what |-> what, info |-> info]

\* self.component_indices
component_index(component) ==
    CHOOSE idx \in Cols : aga8_component_list[idx] = component

\* one row of comp_matrix: the values of a composition at the component indices
Row(comp_dict) ==
    Table([idx \in Cols |->
        IF \E k \in DOMAIN comp_dict : component_index(comp_dict[k][1]) = idx
        THEN comp_dict[CHOOSE k \in DOMAIN comp_dict :
                           component_index(comp_dict[k][1]) = idx][2]
        ELSE R(0)])

\* np.sum of column j over the rows 1..i of a matrix
RECURSIVE ColSum(_, _, _)
ColSum(matrix, j, i) ==
    IF i = 0 THEN R(0) ELSE FAdd(ColSum(matrix, j, i - 1), matrix[i][j])

unique_components(compositions) ==
    UNION {Keys(compositions[i]) : i \in DOMAIN compositions}

MixResult(composition, total_mass) ==
    [composition |-> composition, total_mass |-> total_mass]

\* a variant whose composition holds every AGA8 component
results_error_all_components(compositions) == MixResult(AllNaN(Aga8Names), NaN)
results_error(compositions) == MixResult(AllNaN(unique_components(compositions)), NaN)

\* an input or a mixture the code rejects: raise, or return results_error
Fail(compositions, check_input, what, info) ==
    IF check_input THEN RaiseValueError(what, info)
    ELSE Return(results_error(compositions))

\* the compositions with a key outside the AGA8 list, and the first such key
InvalidRows(compositions) ==
    {i \in DOMAIN compositions : \E k \in Keys(compositions[i]) : k \notin Aga8Names}
FirstInvalidKey(comp_dict) ==
    comp_dict[CHOOSE m \in DOMAIN comp_dict :
                  /\ comp_dict[m][1] \notin Aga8Names
                  /\ \A q \in 1 .. m - 1 : comp_dict[q][1] \in Aga8Names][1]
FirstInvalid(compositions) ==
    FirstInvalidKey(compositions[CHOOSE r \in InvalidRows(compositions) :
                                     \A q \in InvalidRows(compositions) : r <= q])

\* a variant that takes no value for more than 100 percent
comp_matrix_capped(compositions) ==
    Table([i \in DOMAIN compositions |->
        Table([j \in Cols |->
            IF IsNum(Row(compositions[i])[j]) /\ NumCmp(Row(compositions[i])[j], R(100)) > 0
            THEN R(100) ELSE Row(compositions[i])[j]])])
comp_matrix(compositions) ==
    Table([i \in DOMAIN compositions |-> Row(compositions[i])])
comp_sums(matrix) == Table([i \in DOMAIN matrix |-> sum(matrix[i])])
comp_matrix_normalized(matrix, sums) ==
    Table([i \in DOMAIN matrix |->
        Table([j \in Cols |-> FDiv(matrix[i][j], sums[i])])])
\* a variant that gives every stream the average molecular weight of the first
avg_mw_array_of_first(normalized, weights) ==
    Table([i \in DOMAIN normalized |-> DotFrom(normalized[1], weights, n_components)])
avg_mw_array(normalized, weights) ==
    Table([i \in DOMAIN normalized |-> DotFrom(normalized[i], weights, n_components)])
\* a variant that multiplies the mass by the average molecular weight
total_moles_array_times(mix_weights, avg_mw) ==
    Table([i \in DOMAIN mix_weights |-> FMul(FMul(mix_weights[i], R(1000)), avg_mw[i])])
total_moles_array(mix_weights, avg_mw) ==
    Table([i \in DOMAIN mix_weights |-> FDiv(FMul(mix_weights[i], R(1000)), avg_mw[i])])
\* a variant that gives every stream the moles of the first
moles_matrix_of_first(normalized, total_moles) ==
    Table([i \in DOMAIN normalized |->
        Table([j \in Cols |-> FMul(normalized[i][j], total_moles[1])])])
moles_matrix(normalized, total_moles) ==
    Table([i \in DOMAIN normalized |->
        Table([j \in Cols |-> FMul(normalized[i][j], total_moles[i])])])
component_moles(moles) == Table([j \in Cols |-> ColSum(moles, j, Len(moles))])
\* a variant that adds the magnitudes of the masses
total_mass_unsigned(mix_weights) ==
    sum(Table([i \in DOMAIN mix_weights |->
        IF Lt0(mix_weights[i]) THEN FSub(R(0), mix_weights[i]) ELSE mix_weights[i]]))
total_mass(mix_weights) == sum(mix_weights)
mole_percents(moles, total_moles_sum) ==
    Table([j \in Cols |-> FMul(FDiv(moles[j], total_moles_sum), R(100))])
\* a variant that keeps the components of zero percent
nonzero_indices_or_zero(percents) == {j \in Cols : IsNum(percents[j]) /\ ~Lt0(percents[j])}
nonzero_indices(percents) == {j \in Cols : Gt0(percents[j])}
result_composition(percents) ==
    Table([c \in {aga8_component_list[j] : j \in nonzero_indices(percents)} |->
        percents[component_index(c)]])

\* mix from the total of the component moles on
mix_total_unchecked(compositions, check_input, moles, mass, total_moles_sum) ==
    Return(MixResult(result_composition(mole_percents(moles, total_moles_sum)), mass))
mix_total(compositions, check_input, moles, mass, total_moles_sum) ==
    IF IsZero(total_moles_sum) THEN Fail(compositions, check_input, "zero_moles", <<>>)
    ELSE Return(MixResult(result_composition(mole_percents(moles, total_moles_sum)), mass))

\* a variant that also names the components of no moles
negative_components_or_none(moles) ==
    {aga8_component_list[j] : j \in {q \in Cols : ~Gt0(moles[q])}}
\* the names of the components whose summed moles are negative
negative_components(moles) ==
    {aga8_component_list[j] : j \in {q \in Cols : Lt0(moles[q])}}

\* a variant that checks the total mass before the component moles
mix_moles_mass_first(compositions, check_input, moles, mass) ==
    IF check_input /\ Lt0(mass) THEN RaiseValueError("negative_mass", mass)
    ELSE IF check_input /\ \E j \in Cols : Lt0(moles[j])
        THEN RaiseValueError("negative_moles", negative_components(moles))
    ELSE IF ~check_input /\ ((\E j \in Cols : Lt0(moles[j])) \/ Lt0(mass))
        THEN Return(results_error(compositions))
    ELSE mix_total(compositions, check_input, moles, mass, sum(moles))
\* a variant that rejects negative moles and a negative mass only when it
\* checks its input
mix_moles_accepting_negative(compositions, check_input, moles, mass) ==
    IF check_input /\ \E j \in Cols : Lt0(moles[j])
        THEN RaiseValueError("negative_moles", negative_components(moles))
    ELSE IF check_input /\ Lt0(mass) THEN RaiseValueError("negative_mass", mass)
    ELSE mix_total(compositions, check_input, moles, mass, sum(moles))
\* mix from the component moles and the total mass on
mix_moles(compositions, check_input, moles, mass) ==
    IF check_input /\ \E j \in Cols : Lt0(moles[j])
        THEN RaiseValueError("negative_moles", negative_components(moles))
    ELSE IF check_input /\ Lt0(mass) THEN RaiseValueError("negative_mass", mass)
    ELSE IF ~check_input /\ ((\E j \in Cols : Lt0(moles[j])) \/ Lt0(mass))
        THEN Return(results_error(compositions))
    ELSE mix_total(compositions, check_input, moles, mass, sum(moles))

\* mix from the normalised composition matrix on
mix_normalized(equation, compositions, mix_weights, check_input, normalized) ==
    With(avg_mw_array(normalized, molecular_weights(equation)), LAMBDA avg_mw :
    With(total_moles_array(mix_weights, avg_mw), LAMBDA total_moles :
    With(moles_matrix(normalized, total_moles), LAMBDA moles :
    With(component_moles(moles), LAMBDA summed :
        mix_moles(compositions, check_input, summed, total_mass(mix_weights))))))

\* mix from the filled composition matrix on
mix_matrix(equation, compositions, mix_weights, check_input, matrix, sums) ==
    IF \E i \in DOMAIN sums : IsZero(sums[i])
        THEN Fail(compositions, check_input, "zero_sum", <<>>)
    ELSE mix_normalized(equation, compositions, mix_weights, check_input,
                        comp_matrix_normalized(matrix, sums))

mix_filled(equation, compositions, mix_weights, check_input, matrix) ==
    mix_matrix(equation, compositions, mix_weights, check_input, matrix, comp_sums(matrix))

mix(ad, compositions, mix_weights, check_input) ==
    IF Len(compositions) # Len(mix_weights)
        THEN Fail(compositions, check_input, "length", <<>>)
    ELSE IF Len(compositions) = 0 THEN Fail(compositions, check_input, "empty", <<>>)
    ELSE IF InvalidRows(compositions) # {}
        THEN Fail(compositions, check_input, "component", FirstInvalid(compositions))
    ELSE mix_filled(ad.equation, compositions, mix_weights, check_input,
                    comp_matrix(compositions))

(***************************************************************************)
(* Inputs.  Unit strings and component names as the callers write them.    *)
(***************************************************************************)
PressureUnits ==
    { <<"b", "a", "r", "a">>, <<"b", "a", "r", "g">>, <<"P", "a">>, <<"k", "P", "a">>,
      <<"M", "P", "a">>, <<"p", "s", "i">>, <<"p", "s", "i", "a">>, <<"p", "s", "i", "g">>,
      <<"B", "A", "R", "A">>, <<"M", "p", "a">>, <<"P", "s", "i", "a">>,
      <<"a", "t", "m">>, <<"b", "a", "r">>, <<>> }
TemperatureUnits ==
    { <<"C">>, <<"F">>, <<"K">>, <<"c">>, <<"f">>, <<"k">>, <<"R">>, <<"d", "e", "g", "C">> }

PressureValues == {R(0), R(1), R(100), R(-5), Q(689476, 100000), NaN}
TemperatureValues == {R(0), R(20), R(68), R(-40), Q(29315, 100), NaN}

\* one pressure, 689.476 kPa, written in every unit; NaN; unsupported units
QueryPressures ==
    { <<Q(689476, 100000), <<"b", "a", "r", "a">> >>,
      <<Q(588151, 100000), <<"b", "a", "r", "g">> >>,
      <<R(689476), <<"P", "a">> >>,
      <<Q(689476, 1000), <<"k", "P", "a">> >>,
      <<Q(689476, 1000000), <<"M", "P", "a">> >>,
      <<R(100), <<"p", "s", "i">> >>,
      <<R(100), <<"p", "s", "i", "a">> >>,
      <<Q(58815100, 689476), <<"p", "s", "i", "g">> >>,
      <<Q(689476, 100000), <<"B", "A", "R", "A">> >>,
      <<Q(689476, 1000000), <<"M", "p", "a">> >>,
      <<NaN, <<"b", "a", "r", "a">> >>,
      <<NaN, <<"p", "s", "i", "g">> >>,
      <<NaN, <<"a", "t", "m">> >>,
      <<R(1), <<"a", "t", "m">> >>,
      <<R(1), <<"b", "a", "r">> >> }

\* one temperature, 20 C, written in every unit; NaN; unsupported units
QueryTemperatures ==
    { <<R(20), <<"C">> >>, <<R(68), <<"F">> >>, <<Q(29315, 100), <<"K">> >>,
      <<R(68), <<"f">> >>, <<NaN, <<"C">> >>, <<NaN, <<"K">> >>,
      <<R(20), <<"R">> >>, <<NaN, <<"d", "e", "g", "C">> >> }

QueryCompositions ==
    { << <<<<"N", "2">>, R(10)>>, <<<<"C", "1">>, R(90)>> >>,
      << <<<<"N", "2">>, NaN>>, <<<<"C", "1">>, R(90)>> >>,
      << <<<<"C", "1">>, R(0)>> >>,
      << <<<<"X", "e">>, R(1)>> >>,
      <<>> }

MolarMasses == {None, R(18), R(0)}
MassDensities == {R(1), NaN}
Targets == {R(100), NaN}                 \* target enthalpy or entropy
SolverTemperatures == {R(20), R(35)}     \* what the root finder may emit [C]

(***************************************************************************)
(* The queries and the unit converters, each applied to inputs drawn in    *)
(* the initial state on a freshly constructed AGA8 instance.               *)
(***************************************************************************)
Init ==
    /\ pc = "call"
    /\ result = None
    /\ \E equation \in Equations : adapter = NewAdapter(equation)
    /\ \/ /\ op = "pressure_unit_conversion"
          /\ args \in [value : PressureValues, unit : PressureUnits]
          /\ adapter.equation = "GERG-2008"
       \/ /\ op = "temperature_unit_conversion"
          /\ args \in [value : TemperatureValues, unit : TemperatureUnits]
          /\ adapter.equation = "GERG-2008"
       \/ /\ op = "calculate_from_PT"
          /\ \E p \in QueryPressures, t \in QueryTemperatures :
                args \in [composition : QueryCompositions,
                          pressure : {p[1]}, pressure_unit : {p[2]},
                          temperature : {t[1]}, temperature_unit : {t[2]},
                          molar_mass : MolarMasses]
       \/ /\ op = "calculate_from_rhoT"
          /\ \E t \in QueryTemperatures :
                args \in [composition : QueryCompositions,
                          mass_density : MassDensities,
                          temperature : {t[1]}, temperature_unit : {t[2]},
                          molar_mass : MolarMasses]
       \/ /\ op \in {"calculate_from_PH", "calculate_from_PS"}
          /\ \E p \in QueryPressures :
                args \in [composition : QueryCompositions,
                          pressure : {p[1]}, pressure_unit : {p[2]},
                          target : Targets,
                          molar_mass : MolarMasses]

Finish(effect) ==
    /\ result' = effect.out
    /\ adapter' = effect.adapter
    /\ pc' = "done"
    /\ UNCHANGED <<op, args>>

ConvertPressure ==
    /\ pc = "call" /\ op = "pressure_unit_conversion"
    /\ Finish(Effect(pressure_unit_conversion(args.value, args.unit), adapter))

ConvertTemperature ==
    /\ pc = "call" /\ op = "temperature_unit_conversion"
    /\ Finish(Effect(temperature_unit_conversion(args.value, args.unit), adapter))

CalculateFromPT ==
    /\ pc = "call" /\ op = "calculate_from_PT"
    /\ Finish(calculate_from_PT(adapter, args.composition, args.pressure,
                                args.temperature, args.pressure_unit,
                                args.temperature_unit, args.molar_mass))

CalculateFromRhoT ==
    /\ pc = "call" /\ op = "calculate_from_rhoT"
    /\ Finish(calculate_from_rhoT(adapter, args.composition, args.mass_density,
                                  args.temperature, args.temperature_unit,
                                  args.molar_mass))

CalculateFromPH ==
    /\ pc = "call" /\ op = "calculate_from_PH"
    /\ \E temperature_solution \in SolverTemperatures :
          Finish(calculate_from_PH(adapter, args.composition, args.pressure,
                                   args.target, args.pressure_unit, args.molar_mass,
                                   temperature_solution))

CalculateFromPS ==
    /\ pc = "call" /\ op = "calculate_from_PS"
    /\ \E temperature_solution \in SolverTemperatures :
          Finish(calculate_from_PS(adapter, args.composition, args.pressure,
                                   args.target, args.pressure_unit, args.molar_mass,
                                   temperature_solution))

Next ==
    \/ ConvertPressure
    \/ ConvertTemperature
    \/ CalculateFromPT
    \/ CalculateFromRhoT
    \/ CalculateFromPH
    \/ CalculateFromPS

Spec == Init /\ [][Next]_vars

(***************************************************************************)
(* The composition mapper applied to raw compositions of up to MaxItems    *)
(* items with distinct keys.                                               *)
(***************************************************************************)
MaxItems == 2

MapperKeys ==
    { <<"C", "1">>, <<"N", "2">>, <<"C", "7">>, <<"n", "C", "7">>, <<"C", "9">>,
      <<"C", "1", "0">>, <<"C", "1", "1">>, <<"C", "4">>, <<"C", "5">>, <<"C", "6">>,
      <<"C", "1", "-", "x">>, <<"C">>, <<"X", "e">> }
MapperValues == {R(0), R(1), R(3), NaN}

SeqsUpTo(S, n) == UNION {[1 .. k -> S] : k \in 0 .. n}
DistinctKeys(composition) ==
    \A i, j \in DOMAIN composition : composition[i][1] = composition[j][1] => i = j
RawCompositions ==
    {c \in SeqsUpTo(MapperKeys \X MapperValues, MaxItems) : DistinctKeys(c)}

InitMapper ==
    /\ pc = "call"
    /\ result = None
    /\ adapter = NewAdapter("GERG-2008")
    /\ op = "to_aga8_composition"
    /\ args \in [composition : RawCompositions]

ToAga8Composition ==
    /\ pc = "call" /\ op = "to_aga8_composition"
    /\ Finish(Effect(to_aga8_composition(args.composition), adapter))

NextMapper == ToAga8Composition

SpecMapper == InitMapper /\ [][NextMapper]_vars

(***************************************************************************)
(* The mixer applied to up to MaxStreams streams, each a composition and   *)
(* its mass, and to lists of which one misses its last entry.              *)
(***************************************************************************)
MaxStreams == 2

gas_A == << <<<<"N", "2">>, R(2)>>, <<<<"C", "1">>, R(90)>>,
            <<<<"C", "2">>, R(5)>>, <<<<"C", "3">>, R(3)>> >>
gas_D == << <<<<"N", "2">>, R(10)>>, <<<<"C", "1">>, R(80)>>,
            <<<<"C", "2">>, R(5)>>, <<<<"C", "3">>, R(5)>> >>
gas_H2 == << <<<<"H", "2">>, R(100)>>, <<<<"A", "r">>, R(0)>> >>
gas_zero == << <<<<"C", "1">>, R(0)>> >>
gas_Xe == << <<<<"X", "e">>, R(5)>> >>
gas_NaN == << <<<<"N", "2">>, R(10)>>, <<<<"C", "1">>, NaN>> >>

MixCompositions == {gas_A, gas_D, gas_H2, gas_zero, gas_Xe, gas_NaN}
MixWeights == {R(50), R(10), R(-10)}
\* the streams: a composition and the mass of it that is put in or taken out
MixStreams ==
    {st \in MixCompositions \X MixWeights :
        \/ st[1] = gas_A
        \/ st[2] = R(50)}
\* the two lists of a call; one of them may miss its last entry
Front(s) == IF s = <<>> THEN s ELSE SubSeq(s, 1, Len(s) - 1)
StreamCompositions(streams) == [i \in DOMAIN streams |-> streams[i][1]]
StreamWeights(streams) == [i \in DOMAIN streams |-> streams[i][2]]
MixLists(streams) ==
    { [compositions |-> StreamCompositions(streams), mix_weights |-> StreamWeights(streams)],
      [compositions |-> StreamCompositions(streams), mix_weights |-> Front(StreamWeights(streams))],
      [compositions |-> Front(StreamCompositions(streams)), mix_weights |-> StreamWeights(streams)] }
MixArgs ==
    { [compositions |-> l.compositions, mix_weights |-> l.mix_weights, check_input |-> b] :
        l \in UNION {MixLists(streams) : streams \in SeqsUpTo(MixStreams, MaxStreams)},
        b \in BOOLEAN }

InitMix ==
    /\ pc = "call"
    /\ result = None
    /\ \E equation \in Equations : adapter = NewAdapter(equation)
    /\ op = "mix"
    /\ args \in MixArgs

Mix ==
    /\ pc = "call" /\ op = "mix"
    /\ Finish(Effect(mix(adapter, args.compositions, args.mix_weights, args.check_input),
                     adapter))

NextMix == Mix

SpecMix == InitMix /\ [][NextMix]_vars

(***************************************************************************)
(* metering.py: the flow through a Venturi tube.  Square roots and pi are  *)
(* uninterpreted terms; which operation raises is decided exactly.         *)
(***************************************************************************)
Le0(x) == IsNum(x) /\ Sign(x) <= 0
pi == Sym("pi", <<>>)
\* x * y on floats: zero times a number is zero
Times(x, y) ==
    IF IsNaN(x) \/ IsNaN(y) THEN NaN
    ELSE IF IsZero(x) \/ IsZero(y) THEN R(0)
    ELSE FMul(x, y)
\* x / y on Python floats
truediv(x, y) ==
    IF IsZero(y) THEN Raise("ZeroDivisionError")
    ELSE IF IsZero(x) THEN Return(R(0))
    ELSE Return(FDiv(x, y))
\* math.sqrt
sqrt(x) ==
    IF Lt0(x) THEN Raise("ValueError")
    ELSE IF IsNum(x) /\ ~IsZero(x) THEN Return(Sym("sqrt", <<x>>))
    ELSE Return(x)

RaiseException(what) == [raised |-> TRUE, exc |-> "Exception", what |-> what]

calculate_beta_DP_meter(D, d) ==
    IF Le0(D) THEN RaiseException("D") ELSE truediv(d, D)

\* the dictionary calculate_flow_venturi starts from
venturi_results_nan ==
    [MassFlow |-> NaN, VolFlow |-> NaN, Velocity |-> NaN, C |-> NaN, epsilon |-> NaN]

venturi_results(MassFlow, VolFlow, Velocity, C_used, epsilon_used) ==
    IF Velocity.raised THEN Velocity
    ELSE Return([MassFlow |-> MassFlow, VolFlow |-> VolFlow, Velocity |-> Velocity.value,
                 C |-> C_used, epsilon |-> epsilon_used])

\* from the volume flow on: the velocity over the throat area, r = d/2
venturi_VolFlow(MassFlow, VolFlow, r, C_used, epsilon_used) ==
    IF VolFlow.raised THEN VolFlow
    ELSE venturi_results(MassFlow, VolFlow.value,
                         truediv(VolFlow.value, Times(Times(pi, Times(r, r)), R(3600))),
                         C_used, epsilon_used)

venturi_MassFlow(MassFlow, d, rho1, C_used, epsilon_used) ==
    venturi_VolFlow(MassFlow, truediv(MassFlow, rho1), FDiv(d, R(2)), C_used, epsilon_used)

\* from the second square root, of 2 dP_Pa rho1, on
venturi_root(quotient, root, d, rho1, C_used, epsilon_used) ==
    IF root.raised THEN root
    ELSE venturi_MassFlow(
            Times(Times(Times(Times(Times(quotient, epsilon_used), FDiv(pi, R(4))),
                              Times(d, d)), root.value), R(3600)),
            d, rho1, C_used, epsilon_used)

\* from C_used / sqrt(1 - beta**4) on
venturi_quotient(quotient, d, dP_Pa, rho1, C_used, epsilon_used) ==
    IF quotient.raised THEN quotient
    ELSE venturi_root(quotient.value, sqrt(Times(Times(R(2), dP_Pa), rho1)),
                      d, rho1, C_used, epsilon_used)

venturi_sqrt(root, d, dP_Pa, rho1, C_used, epsilon_used) ==
    IF root.raised THEN root
    ELSE venturi_quotient(truediv(C_used, root.value), d, dP_Pa, rho1, C_used, epsilon_used)

venturi_beta(beta, d, dP_Pa, rho1, C_used, epsilon_used) ==
    IF beta.raised THEN beta
    ELSE venturi_sqrt(sqrt(FSub(R(1), Times(Times(beta.value, beta.value),
                                            Times(beta.value, beta.value)))),
                      d, dP_Pa, rho1, C_used, epsilon_used)

\* calculate_flow_venturi once the inputs have passed the checks
venturi_checked(D, d, dP, rho1, C_used, epsilon_used) ==
    venturi_beta(calculate_beta_DP_meter(D, d), d, Times(dP, R(100)), rho1,
                 C_used, epsilon_used)

calculate_flow_venturi(D, d, dP, rho1, C, epsilon, check_input) ==
    IF check_input /\ Le0(D) THEN RaiseException("D")
    ELSE IF check_input /\ Le0(d) THEN RaiseException("d")
    ELSE IF check_input /\ Le0(dP) THEN RaiseException("dP")
    ELSE IF ~check_input /\ (Le0(D) \/ Le0(rho1) \/ Lt0(dP))
        THEN Return(venturi_results_nan)
    ELSE venturi_checked(D, d, dP, rho1,
                         IF C = None THEN Q(984, 1000) ELSE C,
                         IF epsilon = None THEN R(1) ELSE epsilon)

PipeDiameters == {Q(1, 10), R(0), Q(-1, 10), NaN}
ThroatDiameters == {Q(5, 100), R(0), Q(-5, 100), Q(1, 10), Q(2, 10)}
DifferentialPressures == {R(100), R(0), R(-1)}
Densities == {R(10), R(0), R(-1)}
DischargeCoefficients == {None, Q(99, 100)}
ExpansionFactors == {None, Q(98, 100)}

InitVenturi ==
    /\ pc = "call"
    /\ result = None
    /\ adapter = NewAdapter("GERG-2008")
    /\ op = "calculate_flow_venturi"
    /\ args \in [D : PipeDiameters, d : ThroatDiameters, dP : DifferentialPressures,
                 rho1 : Densities, C : DischargeCoefficients,
                 epsilon : ExpansionFactors, check_input : BOOLEAN]

FlowVenturi ==
    /\ pc = "call" /\ op = "calculate_flow_venturi"
    /\ Finish(Effect(calculate_flow_venturi(args.D, args.d, args.dP, args.rho1, args.C,
                                            args.epsilon, args.check_input),
                     adapter))

NextVenturi == FlowVenturi

SpecVenturi == InitVenturi /\ [][NextVenturi]_vars

(***************************************************************************)
(* The discharge coefficient of an orifice plate (metering.py,             *)
(* calculate_C_orifice_ReaderHarrisGallagher).  The coefficient is a term  *)
(* over the quantities the Reader-Harris/Gallagher equation is evaluated   *)
(* with; a tapping is a string or, when it is no string, None.             *)
(***************************************************************************)
Str(s) == [k |-> "str", s |-> s]
IsStr(v) == v.k = "str"
\* the string literals the tapping is compared with
tapping_corner == <<"c", "o", "r", "n", "e", "r">>
tapping_D == <<"D">>
tapping_D_2 == <<"D", "/", "2">>
tapping_flange == <<"f", "l", "a", "n", "g", "e">>

\* the term added where D < 71.12 mm
additional_term(beta, D_mm) ==
    IF NumCmp(D_mm, Q(7112, 100)) < 0
    THEN FMul(FMul(Q(11, 1000), FSub(Q(75, 100), beta)),
              FSub(Q(28, 10), FDiv(D_mm, Q(254, 10))))
    ELSE R(0)

\* M2, A and C from L1 and L2 on
orifice_C(beta, Re, L1, L2, D_mm) ==
    IF Same(beta, R(1)) THEN Raise("ZeroDivisionError")
    ELSE Return(Sym("C", <<beta, Re, L1, FDiv(FMul(R(2), L2), FSub(R(1), beta)),
                          additional_term(beta, D_mm)>>))

\* from the lower-cased tapping on
orifice_tapped(beta, Re, tapping_lower, D_mm, check_input) ==
    IF tapping_lower = tapping_corner THEN orifice_C(beta, Re, R(0), R(0), D_mm)
    ELSE IF tapping_lower \in {tapping_D, tapping_D_2}
        THEN orifice_C(beta, Re, R(1), Q(47, 100), D_mm)
    ELSE IF tapping_lower = tapping_flange
        THEN (IF IsZero(D_mm) THEN Raise("ZeroDivisionError")
              ELSE orifice_C(beta, Re, FDiv(Q(254, 10), D_mm), FDiv(Q(254, 10), D_mm), D_mm))
    ELSE IF check_input THEN RaiseException("tapping")
    ELSE Return(NaN)

calculate_C_orifice_ReaderHarrisGallagher(D, beta, Re, tapping, check_input) ==
    IF check_input /\ Le0(Re) THEN RaiseException("Re")
    ELSE IF check_input /\ ~IsStr(tapping) THEN RaiseException("tapping_type")
    ELSE IF ~check_input /\ IsZero(Re) THEN Return(NaN)
    ELSE IF ~check_input /\ ~IsStr(tapping) THEN Return(NaN)
    ELSE orifice_tapped(beta, Re, lower(tapping.s), FMul(D, R(1000)), check_input)

OrificeDiameters == {Q(5, 100), Q(72, 1000), R(1)}
OrificeBetas == {Q(1, 10), Q(1, 2), R(1)}
ReynoldsNumbers == {R(5000), R(100000000), R(0), R(-1)}
Tappings ==
    { Str(tapping_corner), Str(tapping_D), Str(tapping_D_2), Str(tapping_flange),
      Str(<<"C", "o", "r", "n", "e", "r">>), Str(<<"F", "L", "A", "N", "G", "E">>),
      Str(<<"d">>), Str(<<"d", "/", "2">>), Str(<<"p", "i", "p", "e">>), Str(<<>>), None }

InitOrifice ==
    /\ pc = "call"
    /\ result = None
    /\ adapter = NewAdapter("GERG-2008")
    /\ op = "calculate_C_orifice_ReaderHarrisGallagher"
    /\ args \in [D : OrificeDiameters, beta : OrificeBetas, Re : ReynoldsNumbers,
                 tapping : Tappings, check_input : BOOLEAN]

COrifice ==
    /\ pc = "call" /\ op = "calculate_C_orifice_ReaderHarrisGallagher"
    /\ Finish(Effect(calculate_C_orifice_ReaderHarrisGallagher(
                         args.D, args.beta, args.Re, args.tapping, args.check_input),
                     adapter))

NextOrifice == COrifice

SpecOrifice == InitOrifice /\ [][NextOrifice]_vars

(***************************************************************************)
(* Two threads call calculate_from_PT at the same time.  The statements of *)
(* a call that touch the engine are steps of their own; what a call does   *)
(* before them (unit conversion, mapping, NaN check) is local to it.  The  *)
(* threads share one AGA8 instance, share it under a lock held for the     *)
(* whole sequence, or use an instance of their own.                        *)
(***************************************************************************)
Threads == {1, 2}
Modes == {"shared", "locked", "own"}
\* set composition, set pressure, set temperature, density, properties, harvest
PTSteps == << "set_composition", "pressure", "temperature", "calc_density",
              "calc_properties", "get_properties" >>

\* the local values of a call whose inputs are valid numbers
PTLocals(call) ==
    [fluid |-> to_aga8_composition(call.composition).value.fluid,
     dict |-> to_aga8_composition(call.composition).value.dict,
     pressure_kPa |-> pressure_unit_conversion(call.pressure, call.pressure_unit).value,
     temperature_K |->
         temperature_unit_conversion(call.temperature, call.temperature_unit).value,
     molar_mass |-> call.molar_mass]

\* a variant that leaves out the density calculation
pt_step_without_density(ad, locals, step) ==
    CASE step = "set_composition" -> set_composition(ad, locals.fluid)
      [] step = "pressure" -> SetAttr(ad, "pressure", locals.pressure_kPa)
      [] step = "temperature" -> SetAttr(ad, "temperature", locals.temperature_K)
      [] step = "calc_properties" -> calc_properties(ad)
      [] OTHER -> ad
\* the engine after one statement of calculate_from_PT
pt_step(ad, locals, step) ==
    CASE step = "set_composition" -> set_composition(ad, locals.fluid)
      [] step = "pressure" -> SetAttr(ad, "pressure", locals.pressure_kPa)
      [] step = "temperature" -> SetAttr(ad, "temperature", locals.temperature_K)
      [] step = "calc_density" -> calc_density(ad)
      [] step = "calc_properties" -> calc_properties(ad)
      [] OTHER -> ad
\* the results a call reads off the engine and completes
pt_harvest(ad, locals) ==
    Return(WithRho(get_properties(ad), locals.molar_mass, locals.dict))

ConcurrentCompositions ==
    { << <<<<"N", "2">>, R(10)>>, <<<<"C", "1">>, R(90)>> >>,
      << <<<<"C", "1">>, R(100)>> >> }
ConcurrentCalls ==
    [composition : ConcurrentCompositions,
     pressure : {R(10), R(20)}, pressure_unit : {<<"b", "a", "r", "a">>},
     temperature : {R(20), R(50)}, temperature_unit : {<<"C">>},
     molar_mass : {None}]

InitConcurrent ==
    /\ op = "calculate_from_PT in two threads"
    /\ args \in [mode : Modes, calls : [Threads -> ConcurrentCalls]]
    /\ pc = [t \in Threads |-> 0]
    /\ result = [t \in Threads |-> None]
    /\ adapter = [engines |-> [t \in Threads |-> NewAdapter("GERG-2008")], lock |-> 0]

\* the instance a thread calls
InstanceOf(t) == IF args.mode = "own" THEN t ELSE 1

\* thread t executes its next statement; under the lock only if no other
\* thread is inside its sequence
ThreadStep(t) ==
    /\ pc[t] < Len(PTSteps)
    /\ args.mode = "locked" => adapter.lock \in {0, t}
    /\ pc' = [pc EXCEPT ![t] = @ + 1]
    /\ adapter' =
          [engines |-> [adapter.engines EXCEPT ![InstanceOf(t)] =
                           pt_step(@, PTLocals(args.calls[t]), PTSteps[pc[t] + 1])],
           lock |-> IF args.mode = "locked" /\ pc[t] + 1 < Len(PTSteps) THEN t ELSE 0]
    /\ result' = [result EXCEPT ![t] =
                     IF pc[t] + 1 = Len(PTSteps)
                     THEN pt_harvest(adapter.engines[InstanceOf(t)],
                                     PTLocals(args.calls[t]))
                     ELSE @]
    /\ UNCHANGED <<op, args>>

NextConcurrent == \E t \in Threads : ThreadStep(t)

SpecConcurrent == InitConcurrent /\ [][NextConcurrent]_vars

(***************************************************************************)
(* A sequence of calls on one AGA8 instance: each call finds the engine as *)
(* the calls before it left it.  pc counts the calls made so far.          *)
(***************************************************************************)
MaxCalls == 2

methane == << <<<<"C", "1">>, R(100)>> >>
\* a call with valid inputs, and calls that differ from it in one input
BasePT ==
    [composition |-> << <<<<"N", "2">>, R(10)>>, <<<<"C", "1">>, R(90)>> >>,
     pressure |-> R(10), pressure_unit |-> <<"b", "a", "r", "a">>,
     temperature |-> R(20), temperature_unit |-> <<"C">>, molar_mass |-> None]
PTCalls ==
    { BasePT,
      [BasePT EXCEPT !.composition = methane],
      [BasePT EXCEPT !.composition = gas_NaN],
      [BasePT EXCEPT !.composition = gas_zero],
      [BasePT EXCEPT !.pressure = R(20)],
      [BasePT EXCEPT !.pressure = NaN],
      [BasePT EXCEPT !.pressure_unit = <<"a", "t", "m">>],
      [BasePT EXCEPT !.temperature = R(50)] }
BaseRhoT ==
    [composition |-> BasePT.composition, mass_density |-> R(1),
     temperature |-> R(20), temperature_unit |-> <<"C">>, molar_mass |-> None]
RhoTCalls ==
    { BaseRhoT,
      [BaseRhoT EXCEPT !.mass_density = R(2)],
      [BaseRhoT EXCEPT !.temperature = NaN],
      [BaseRhoT EXCEPT !.molar_mass = R(0)] }
BasePX ==
    [composition |-> BasePT.composition, pressure |-> R(10),
     pressure_unit |-> <<"b", "a", "r", "a">>, target |-> R(100), molar_mass |-> None]
PXCalls == { BasePX, [BasePX EXCEPT !.target = NaN] }
MixCalls ==
    { [compositions |-> <<gas_A, gas_D>>, mix_weights |-> <<R(50), R(50)>>,
       check_input |-> TRUE],
      [compositions |-> <<gas_A>>, mix_weights |-> <<R(-10)>>, check_input |-> TRUE] }

InitSequence ==
    /\ pc = 0
    /\ op = "AGA8"
    /\ args \in [equation : Equations]
    /\ result = None
    /\ adapter = NewAdapter(args.equation)

\* the call o(a) made on the instance as it is
Then(o, a, effect) ==
    /\ pc < MaxCalls
    /\ pc' = pc + 1
    /\ op' = o
    /\ args' = a
    /\ result' = effect.out
    /\ adapter' = effect.adapter

ThenPT ==
    \E a \in PTCalls :
        Then("calculate_from_PT", a,
             calculate_from_PT(adapter, a.composition, a.pressure, a.temperature,
                               a.pressure_unit, a.temperature_unit, a.molar_mass))
ThenRhoT ==
    \E a \in RhoTCalls :
        Then("calculate_from_rhoT", a,
             calculate_from_rhoT(adapter, a.composition, a.mass_density, a.temperature,
                                 a.temperature_unit, a.molar_mass))
ThenPH ==
    \E a \in PXCalls, temperature_solution \in SolverTemperatures :
        Then("calculate_from_PH", a,
             calculate_from_PH(adapter, a.composition, a.pressure, a.target,
                               a.pressure_unit, a.molar_mass, temperature_solution))
ThenPS ==
    \E a \in PXCalls, temperature_solution \in SolverTemperatures :
        Then("calculate_from_PS", a,
             calculate_from_PS(adapter, a.composition, a.pressure, a.target,
                               a.pressure_unit, a.molar_mass, temperature_solution))
ThenMix ==
    \E a \in MixCalls :
        Then("mix", a,
             Effect(mix(adapter, a.compositions, a.mix_weights, a.check_input), adapter))

NextSequence ==
    \/ ThenPT
    \/ ThenRhoT
    \/ ThenPH
    \/ ThenPS
    \/ ThenMix

SpecSequence == InitSequence /\ [][NextSequence]_vars

(***************************************************************************)
(* The caller's objects.  Mappings and lists are objects on a heap and are *)
(* passed by reference; a reference is an index into the heap.  An         *)
(* operation reads the objects it is given and creates the mapping that it *)
(* returns.                                                                *)
(***************************************************************************)
\* a variant that stores the mapping in the first input object and returns it
new_mapping_in_place(heap, out, field) ==
    IF out.raised \/ field \notin DOMAIN out.value THEN [heap |-> heap, out |-> out]
    ELSE [heap |-> [heap EXCEPT ![1] = out.value[field]],
          out |-> Return([out.value EXCEPT ![field] = 1])]
\* the mapping under a field of the returned value is a dict built by the
\* call: a new object, which the returned value refers to
new_mapping(heap, out, field) ==
    IF out.raised \/ field \notin DOMAIN out.value THEN [heap |-> heap, out |-> out]
    ELSE [heap |-> Append(heap, out.value[field]),
          out |-> Return([out.value EXCEPT ![field] = Len(heap) + 1])]

\* the objects a list of references refers to
Deref(heap, list) == [i \in DOMAIN list |-> heap[list[i]]]

\* a query call: the composition mapping is object 1
QueryFrame(o, a) ==
    [op |-> o, args |-> [a EXCEPT !.composition = 1], heap |-> <<a.composition>>]
\* a mix call: the mappings, then the list of them, then the list of masses
MixFrame(a) ==
    [op |-> "mix",
     args |-> [compositions |-> Len(a.compositions) + 1,
               mix_weights |-> Len(a.compositions) + 2,
               check_input |-> a.check_input],
     heap |-> a.compositions \o << [i \in DOMAIN a.compositions |-> i], a.mix_weights >>]
FrameMixCalls ==
    MixCalls \cup
    { [compositions |-> <<gas_A>>, mix_weights |-> <<R(-10)>>, check_input |-> FALSE],
      [compositions |-> <<gas_A, gas_NaN>>, mix_weights |-> <<R(50), R(50)>>,
       check_input |-> FALSE],
      [compositions |-> <<gas_zero>>, mix_weights |-> <<R(50)>>, check_input |-> TRUE],
      [compositions |-> <<gas_A, gas_Xe>>, mix_weights |-> <<R(50), R(10)>>,
       check_input |-> TRUE] }
FrameCalls ==
    {QueryFrame("to_aga8_composition", [composition |-> c]) :
        c \in {BasePT.composition, methane, gas_A, gas_D, gas_H2, gas_NaN,
               gas_zero, gas_Xe, <<>>}}
    \cup {QueryFrame("calculate_from_PT", a) : a \in PTCalls}
    \cup {QueryFrame("calculate_from_rhoT", a) : a \in RhoTCalls}
    \cup {QueryFrame("calculate_from_PH", a) : a \in PXCalls}
    \cup {QueryFrame("calculate_from_PS", a) : a \in PXCalls}
    \cup {MixFrame(a) : a \in FrameMixCalls}

InitFrame ==
    /\ pc = "call"
    /\ result = None
    /\ \E equation \in Equations, call \in FrameCalls :
          /\ op = call.op
          /\ args = call.args
          /\ adapter = [engine |-> NewAdapter(equation), heap |-> call.heap]

\* the call returns or raises: the engine and the heap after it
FinishFrame(effect, field) ==
    /\ result' = new_mapping(adapter.heap, effect.out, field).out
    /\ adapter' = [engine |-> effect.adapter,
                   heap |-> new_mapping(adapter.heap, effect.out, field).heap]
    /\ pc' = "done"
    /\ UNCHANGED <<op, args>>

FrameToAga8Composition ==
    /\ pc = "call" /\ op = "to_aga8_composition"
    /\ FinishFrame(Effect(to_aga8_composition(adapter.heap[args.composition]),
                          adapter.engine),
                   "dict")
FramePT ==
    /\ pc = "call" /\ op = "calculate_from_PT"
    /\ FinishFrame(calculate_from_PT(adapter.engine, adapter.heap[args.composition],
                                     args.pressure, args.temperature, args.pressure_unit,
                                     args.temperature_unit, args.molar_mass),
                   "gas_composition")
FrameRhoT ==
    /\ pc = "call" /\ op = "calculate_from_rhoT"
    /\ FinishFrame(calculate_from_rhoT(adapter.engine, adapter.heap[args.composition],
                                       args.mass_density, args.temperature,
                                       args.temperature_unit, args.molar_mass),
                   "gas_composition")
FramePH ==
    /\ pc = "call" /\ op = "calculate_from_PH"
    /\ \E temperature_solution \in SolverTemperatures :
          FinishFrame(calculate_from_PH(adapter.engine, adapter.heap[args.composition],
                                        args.pressure, args.target, args.pressure_unit,
                                        args.molar_mass, temperature_solution),
                      "gas_composition")
FramePS ==
    /\ pc = "call" /\ op = "calculate_from_PS"
    /\ \E temperature_solution \in SolverTemperatures :
          FinishFrame(calculate_from_PS(adapter.engine, adapter.heap[args.composition],
                                        args.pressure, args.target, args.pressure_unit,
                                        args.molar_mass, temperature_solution),
                      "gas_composition")
FrameMix ==
    /\ pc = "call" /\ op = "mix"
    /\ FinishFrame(Effect(mix(adapter.engine,
                              Deref(adapter.heap, adapter.heap[args.compositions]),
                              adapter.heap[args.mix_weights], args.check_input),
                          adapter.engine),
                   "composition")

NextFrame ==
    \/ FrameToAga8Composition
    \/ FramePT
    \/ FrameRhoT
    \/ FramePH
    \/ FramePS
    \/ FrameMix

SpecFrame == InitFrame /\ [][NextFrame]_vars

(***************************************************************************)
(* calculate_from_PH and calculate_from_PS with the root finder's          *)
(* iteration spelled out: fsolve evaluates the residual, which is a        *)
(* calculate_from_PT on the instance, at most MaxEvaluations times (its    *)
(* maxfev), moves its iterate as it sees fit, and emits its last iterate   *)
(* whether it has converged or not.  pc holds where the call is, the       *)
(* number of evaluations made and the iterate.                             *)
(***************************************************************************)
MaxEvaluations == 2

SolveCalls ==
    PXCalls \cup
    { [BasePX EXCEPT !.composition = methane],
      [BasePX EXCEPT !.composition = gas_zero],
      [BasePX EXCEPT !.composition = gas_NaN],
      [BasePX EXCEPT !.pressure = R(20)],
      [BasePX EXCEPT !.pressure = NaN],
      [BasePX EXCEPT !.pressure = R(100), !.pressure_unit = <<"p", "s", "i", "a">>],
      [BasePX EXCEPT !.pressure_unit = <<"a", "t", "m">>],
      [BasePX EXCEPT !.molar_mass = R(18)] }

InitSolve ==
    /\ op \in {"calculate_from_PH", "calculate_from_PS"}
    /\ args \in SolveCalls
    /\ pc = [at |-> "start", evaluations |-> 0, temperature |-> R(20), converged |-> FALSE]
    /\ result = None
    /\ \E equation \in Equations : adapter = NewAdapter(equation)

\* a variant that evaluates at the initial guess
solve_PT_at_guess(ad, a, temperature) ==
    calculate_from_PT(ad, a.composition, a.pressure, R(20), a.pressure_unit, <<"C">>,
                      a.molar_mass)
\* the calculate_from_PT the residual and the last statement make
solve_PT(ad, a, temperature) ==
    calculate_from_PT(ad, a.composition, a.pressure, temperature, a.pressure_unit, <<"C">>,
                      a.molar_mass)

\* the call ends with an outcome
SolveDone(effect, converged) ==
    /\ result' = effect.out
    /\ adapter' = effect.adapter
    /\ pc' = [pc EXCEPT !.at = "done", !.converged = converged]
    /\ UNCHANGED <<op, args>>

\* the statements before the root finder
SolveStarted(pressure_kPa) ==
    IF pressure_kPa.raised THEN SolveDone(Effect(pressure_kPa, adapter), FALSE)
    ELSE IF \/ IsNaN(pressure_kPa.value)
            \/ IsNaN(args.target)
            \/ AnyNaN(args.composition)
    THEN \E out \in {PX_nan(adapter, to_aga8_composition(args.composition))} :
             SolveDone(out, FALSE)
    ELSE /\ pc' = [pc EXCEPT !.at = "solving"]
         /\ UNCHANGED <<op, args, result, adapter>>
SolveStart ==
    /\ pc.at = "start"
    /\ \E pressure_kPa \in {pressure_unit_conversion(args.pressure, args.pressure_unit)} :
          SolveStarted(pressure_kPa)

\* one evaluation of the residual at the iterate; an exception of
\* calculate_from_PT passes through the root finder
SolveEvaluated(out, next) ==
    IF out.out.raised THEN SolveDone(out, FALSE)
    ELSE /\ pc' = [pc EXCEPT !.evaluations = @ + 1, !.temperature = next]
         /\ adapter' = out.adapter
         /\ UNCHANGED <<op, args, result>>
SolveResidual ==
    /\ pc.at = "solving"
    /\ pc.evaluations < MaxEvaluations
    /\ \E out \in {solve_PT(adapter, args, pc.temperature)}, next \in SolverTemperatures :
          SolveEvaluated(out, next)

\* the root finder returns its iterate, converged or not, and the call
\* returns calculate_from_PT at it
SolveEmit ==
    /\ pc.at = "solving"
    /\ pc.evaluations >= 1
    /\ \E out \in {solve_PT(adapter, args, pc.temperature)}, converged \in BOOLEAN :
          SolveDone(out, converged)

NextSolve ==
    \/ SolveStart
    \/ SolveResidual
    \/ SolveEmit

SpecSolve == InitSolve /\ [][NextSolve]_vars

\* Every step of the call moves pc, and a call that has not ended can take
\* a step.  The call is synchronous and is not suspended: as long as it has
\* not ended it moves on.
Positions ==
    [at : {"solving", "done"}, evaluations : 0 .. MaxEvaluations + 1,
     temperature : SolverTemperatures, converged : BOOLEAN]
MoveOn == pc.at # "done" /\ pc' \in Positions
SpecSolveLive == SpecSolve /\ WF_pc(MoveOn)

(***************************************************************************)
(* The mixer applied to streams that include the edge cases of its         *)
(* arithmetic: a mass that is zero or NaN, a composition that is empty or  *)
(* holds NaN.                                                              *)
(***************************************************************************)
EdgeStreams ==
    {<<gas_A, w>> : w \in {R(50), R(-10), R(0), NaN}}
    \cup {<<c, R(50)>> : c \in {gas_D, gas_NaN, gas_zero, gas_Xe, <<>>}}
    \cup {<<gas_NaN, R(-10)>>}
EdgeArgs ==
    { [compositions |-> l.compositions, mix_weights |-> l.mix_weights, check_input |-> b] :
        l \in UNION {MixLists(streams) : streams \in SeqsUpTo(EdgeStreams, MaxStreams)},
        b \in BOOLEAN }

InitMixEdge ==
    /\ pc = "call"
    /\ result = None
    /\ \E equation \in Equations : adapter = NewAdapter(equation)
    /\ op = "mix"
    /\ args \in EdgeArgs

SpecMixEdge == InitMixEdge /\ [][NextMix]_vars

(***************************************************************************)
(* Properties of the unit converters and the queries, under Spec.          *)
(***************************************************************************)
QueryOps ==
    {"calculate_from_PT", "calculate_from_rhoT", "calculate_from_PH", "calculate_from_PS"}
PressureOps == {"calculate_from_PT", "calculate_from_PH", "calculate_from_PS"}
TemperatureOps == {"calculate_from_PT", "calculate_from_rhoT"}

\* the unit strings as the specification spells them
PressureUnitNames ==
    { <<"b", "a", "r", "a">>, <<"b", "a", "r", "g">>, <<"P", "a">>, <<"k", "P", "a">>,
      <<"M", "P", "a">>, <<"p", "s", "i">>, <<"p", "s", "i", "a">>, <<"p", "s", "i", "g">> }
TemperatureUnitNames == { <<"C">>, <<"F">>, <<"K">> }

SameLetter(a, b) ==
    \/ a = b
    \/ \E i \in DOMAIN UpperCase : {a, b} = {UpperCase[i], LowerCase[i]}
EqualIgnoringCase(u, v) ==
    Len(u) = Len(v) /\ \A i \in DOMAIN u : SameLetter(u[i], v[i])
IsUnit(u, names) == \E n \in names : EqualIgnoringCase(u, n)

\* the units a call names are all supported
UnitsSupported ==
    /\ op \in PressureOps => IsUnit(args.pressure_unit, PressureUnitNames)
    /\ op \in TemperatureOps => IsUnit(args.temperature_unit, TemperatureUnitNames)

NamesRecognized(composition) ==
    \A i \in DOMAIN composition : ~TargetKey(composition[i][1]).raised
SumIsZero(composition) == composition # <<>> /\ IsZero(sum(Values(composition)))

\* one of the numeric inputs of the query is NaN
SomeInputNaN ==
    \/ AnyNaN(args.composition)
    \/ op \in PressureOps /\ IsNaN(args.pressure)
    \/ op \in TemperatureOps /\ IsNaN(args.temperature)
    \/ op = "calculate_from_rhoT" /\ IsNaN(args.mass_density)
    \/ op \in {"calculate_from_PH", "calculate_from_PS"} /\ IsNaN(args.target)

AllFieldsNaN(results) ==
    /\ "gas_composition" \in DOMAIN results
    /\ \A f \in DOMAIN results \ {"gas_composition"} : IsNaN(results[f])

\* C1: a query called with supported units and recognized component names,
\* one of whose numeric inputs is NaN, raises no exception and returns a
\* result in which every field but gas_composition is NaN and gas_composition
\* is present.
C1_NaNInputGivesNaNResult ==
    (/\ pc = "done" /\ op \in QueryOps
     /\ UnitsSupported
     /\ NamesRecognized(args.composition)
     /\ SomeInputNaN)
    => (~result.raised /\ AllFieldsNaN(result.value))

\* C2: the converters accept exactly the eight pressure units and the three
\* temperature units, whatever the case of their letters; a query given
\* any other unit string raises, also when a value is NaN, and a query
\* given supported units and a composition the mapper accepts does not.
C2_UnitsAcceptedExactly ==
    pc = "done" =>
        /\ op = "pressure_unit_conversion" =>
              (result.raised <=> ~IsUnit(args.unit, PressureUnitNames))
        /\ op = "temperature_unit_conversion" =>
              (result.raised <=> ~IsUnit(args.unit, TemperatureUnitNames))
        /\ (op \in QueryOps /\ ~UnitsSupported) =>
              (result.raised /\ result.exc = "Exception")
        /\ (/\ op \in QueryOps /\ UnitsSupported
            /\ NamesRecognized(args.composition)
            /\ ~SumIsZero(args.composition)) => ~result.raised

C2_Witness ==
    /\ pc = "done" /\ op = "calculate_from_PH"
    /\ IsNaN(args.pressure) /\ AnyNaN(args.composition)
    /\ ~IsUnit(args.pressure_unit, PressureUnitNames)
    /\ result.raised

\* what a (value, unit) pair denotes physically: absolute kPa and kelvin
IsName(u, name) == EqualIgnoringCase(u, name)
KPaPerUnit(u) ==
    IF IsName(u, <<"b", "a", "r", "a">>) \/ IsName(u, <<"b", "a", "r", "g">>) THEN R(100)
    ELSE IF IsName(u, <<"P", "a">>) THEN Q(1, 1000)
    ELSE IF IsName(u, <<"k", "P", "a">>) THEN R(1)
    ELSE IF IsName(u, <<"M", "P", "a">>) THEN R(1000)
    ELSE Q(689476, 100000)
IsGauge(u) == IsName(u, <<"b", "a", "r", "g">>) \/ IsName(u, <<"p", "s", "i", "g">>)
AbsoluteKPa(v, u) ==
    FAdd(FMul(v, KPaPerUnit(u)), IF IsGauge(u) THEN Q(101325, 1000) ELSE R(0))
Kelvin(v, u) ==
    IF IsName(u, <<"K">>) THEN v
    ELSE IF IsName(u, <<"C">>) THEN FAdd(v, Q(27315, 100))
    ELSE FAdd(FDiv(FMul(FSub(v, R(32)), R(5)), R(9)), Q(27315, 100))

\* the bara / Celsius call that denotes the same state as the call made
BaraCelsiusCall ==
    calculate_from_PT(NewAdapter(adapter.equation), args.composition,
                      FDiv(AbsoluteKPa(args.pressure, args.pressure_unit), R(100)),
                      FSub(Kelvin(args.temperature, args.temperature_unit), Q(27315, 100)),
                      <<"b", "a", "r", "a">>, <<"C">>, args.molar_mass)

\* C3: a calculate_from_PT call passes to the engine the kPa pressure and
\* kelvin temperature its (value, unit) pairs denote, the same as the
\* bara / Celsius call for that state passes, and returns the same result.
C3_EquivalentUnitsSameEngineInputs ==
    (/\ pc = "done" /\ op = "calculate_from_PT"
     /\ UnitsSupported /\ ~result.raised /\ ~SomeInputNaN)
    => /\ ~BaraCelsiusCall.out.raised
       /\ Same(adapter.attrs.pressure, BaraCelsiusCall.adapter.attrs.pressure)
       /\ Same(adapter.attrs.temperature, BaraCelsiusCall.adapter.attrs.temperature)
       /\ adapter.x = BaraCelsiusCall.adapter.x
       /\ Same(result.value["pressure_bara"], BaraCelsiusCall.out.value["pressure_bara"])
       /\ Same(result.value["temperature_C"], BaraCelsiusCall.out.value["temperature_C"])

\* C4: the converter scales a value in an absolute unit and adds the
\* standard atmosphere of 101.325 kPa only for barg and psig, so that a
\* psia value converts as the same value in psi does.
C4_AbsoluteUnitsPureScaling ==
    (/\ pc = "done" /\ op = "pressure_unit_conversion" /\ ~result.raised)
    => /\ Same(result.value, AbsoluteKPa(args.value, args.unit))
       /\ IsName(args.unit, <<"p", "s", "i", "a">>) =>
             Same(result.value,
                  pressure_unit_conversion(args.value, <<"p", "s", "i">>).value)

(***************************************************************************)
(* Properties of the composition mapper, under SpecMapper.                 *)
(***************************************************************************)
HasKey(composition, key) == \E i \in DOMAIN composition : composition[i][1] = key
ReplaceKey(composition, i, key) == [composition EXCEPT ![i][1] = key]

\* the key is 'C' followed by the decimal digits of a number in the set
IsCarbonNumber(key, numbers) ==
    /\ Len(key) >= 2 /\ key[1] = "C"
    /\ IsDigits(Tail(key))
    /\ int(Tail(key)) \in numbers

\* the mapper's outcome is what it is with item i under another key
SameUnderKey(i, key) ==
    ~HasKey(args.composition, key) =>
        result = to_aga8_composition(ReplaceKey(args.composition, i, key))

\* C5: an item keyed 'C6', 'C7', 'C8' or 'C9' is mapped as the same item
\* keyed 'nC6', 'nC7', 'nC8' or 'nC9' is; an item keyed 'CN' with N >= 10
\* is mapped as the same item keyed 'C10' is, and as one keyed 'nC10':
\* the engine composition and the fraction map are the same.
C5_ShorthandSameAsNormalAlkane ==
    (pc = "done" /\ op = "to_aga8_composition") =>
        \A i \in DOMAIN args.composition :
            /\ IsCarbonNumber(args.composition[i][1], {6, 7, 8, 9}) =>
                  SameUnderKey(i, <<"n">> \o args.composition[i][1])
            /\ IsCarbonNumber(args.composition[i][1], 10 .. 99) =>
                  /\ SameUnderKey(i, <<"C", "1", "0">>)
                  /\ SameUnderKey(i, <<"n", "C", "1", "0">>)

C5_Witness ==
    /\ pc = "done" /\ op = "to_aga8_composition" /\ ~result.raised
    /\ \E i, j \in DOMAIN args.composition :
          /\ args.composition[i][1] = <<"C", "7">>
          /\ Gt0(result.value.dict[<<"n", "C", "7">>])
          /\ args.composition[j][1] = <<"C", "1", "1">>
          /\ Gt0(result.value.fluid[<<"n", "C", "1", "0">>])

RECURSIVE SumOver(_, _)
SumOver(f, S) ==
    IF S = {} THEN R(0)
    ELSE FAdd(f[CHOOSE k \in S : TRUE], SumOver(f, S \ {CHOOSE k \in S : TRUE}))

NonNegative(composition) ==
    \A i \in DOMAIN composition :
        IsNum(composition[i][2]) /\ ~Lt0(composition[i][2])

\* C6: the fraction map of an accepted raw composition with non-negative
\* values and a non-zero sum has no negative value and its values sum to 1,
\* also when several keys of the input share one canonical component.
C6_FractionsSumToOne ==
    (/\ pc = "done" /\ op = "to_aga8_composition" /\ ~result.raised
     /\ NonNegative(args.composition)
     /\ ~IsZero(sum(Values(args.composition))))
    => /\ \A k \in DOMAIN result.value.dict : ~Lt0(result.value.dict[k])
       /\ Same(SumOver(result.value.dict, DOMAIN result.value.dict), R(1))

\* the canonical token of a key: the part before a hyphen, with the carbon
\* numbers 6 to 9 read as the normal alkane and those from 10 on as nC10
CanonicalToken(key) ==
    IF IsCarbonNumber(split_first(key), {6, 7, 8, 9}) THEN <<"n">> \o split_first(key)
    ELSE IF IsCarbonNumber(split_first(key), 10 .. 99) THEN <<"n", "C", "1", "0">>
    ELSE split_first(key)

\* C7: the mapper raises for every key whose canonical token is not one of
\* the 21 component names, 'C4' and 'C5' among them, and the fraction map
\* it returns has exactly the 21 names as its keys.
C7_OnlyTheComponentNames ==
    (pc = "done" /\ op = "to_aga8_composition") =>
        /\ (\E i \in DOMAIN args.composition :
               CanonicalToken(args.composition[i][1]) \notin Aga8Names) => result.raised
        /\ ~result.raised => DOMAIN result.value.dict = Aga8Names

(***************************************************************************)
(* Properties of the mixer, under SpecMix.                                 *)
(***************************************************************************)
\* mix returned, and what it returned is not the all-NaN error result
MixReturned ==
    /\ pc = "done" /\ op = "mix" /\ ~result.raised
    /\ ~IsNaN(result.value.total_mass)

\* as many masses as compositions, at least one; AGA8 names; non-negative
\* values with a non-zero sum in each composition; masses that are numbers
ValidMixInputs ==
    /\ Len(args.compositions) = Len(args.mix_weights)
    /\ Len(args.compositions) >= 1
    /\ \A i \in DOMAIN args.compositions :
          /\ Keys(args.compositions[i]) \subseteq Aga8Names
          /\ NonNegative(args.compositions[i])
          /\ ~IsZero(sum(Values(args.compositions[i])))
    /\ \A i \in DOMAIN args.mix_weights : IsNum(args.mix_weights[i])

\* the masses added up from the last to the first
RECURSIVE SignedSum(_)
SignedSum(ws) == IF ws = <<>> THEN R(0) ELSE FAdd(Head(ws), SignedSum(Tail(ws)))

\* C8: the total_mass of a non-error result of mix is the arithmetic sum of
\* the signed input masses.
C8_TotalMassIsSignedSum ==
    MixReturned => Same(result.value.total_mass, SignedSum(args.mix_weights))

C8_Witness ==
    /\ MixReturned
    /\ \E i, j \in DOMAIN args.mix_weights :
          Lt0(args.mix_weights[i]) /\ Gt0(args.mix_weights[j])
    /\ Gt0(result.value.total_mass)

\* C9: the composition of a non-error result of mix for valid inputs holds
\* only strictly positive mole percents, under keys that are components of
\* at least one input composition, and its values sum to 100.
C9_PositivePercentsSumTo100 ==
    (MixReturned /\ ValidMixInputs) =>
        /\ \A c \in DOMAIN result.value.composition :
              /\ Gt0(result.value.composition[c])
              /\ \E i \in DOMAIN args.compositions : HasKey(args.compositions[i], c)
        /\ Same(SumOver(result.value.composition, DOMAIN result.value.composition),
                R(100))

\* a component of an input, of zero mole percent, is dropped from the result
C9_Witness ==
    /\ MixReturned /\ ValidMixInputs
    /\ Len(args.compositions) = 2
    /\ HasKey(args.compositions[1], <<"A", "r">>)
    /\ <<"A", "r">> \notin DOMAIN result.value.composition
    /\ <<"H", "2">> \in DOMAIN result.value.composition
    /\ <<"C", "1">> \in DOMAIN result.value.composition

\* the value of component c in a composition, 0 when it is not a key
ValueOf(composition, c) ==
    IF HasKey(composition, c)
    THEN composition[CHOOSE k \in DOMAIN composition : composition[k][1] = c][2]
    ELSE R(0)
\* x_ic, the normalised mole fraction of component c in a composition
FractionOf(composition, c) == FDiv(ValueOf(composition, c), sum(Values(composition)))
MWOf(c) == molecular_weights(adapter.equation)[component_index(c)]
RECURSIVE AvgMWOver(_, _)
AvgMWOver(composition, i) ==
    IF i = 0 THEN R(0)
    ELSE FAdd(AvgMWOver(composition, i - 1),
              FMul(FractionOf(composition, composition[i][1]), MWOf(composition[i][1])))
\* avgMW_i = sum over c of x_ic MW_c
AvgMW(composition) == AvgMWOver(composition, Len(composition))
PercentIn(composition, c) == IF c \in DOMAIN composition THEN composition[c] ELSE R(0)
Within(x, lo, hi) == NumCmp(x, lo) >= 0 /\ NumCmp(x, hi) <= 0
\* mass_i 1000 / avgMW_i, for every stream i
MolesPerStream ==
    Table([i \in DOMAIN args.compositions |->
        FDiv(FMul(args.mix_weights[i], R(1000)), AvgMW(args.compositions[i]))])
\* n_c = sum over the streams 1..i of x_ic mass_i 1000 / avgMW_i
RECURSIVE MolesOf(_, _, _)
MolesOf(c, i, streams) ==
    IF i = 0 THEN R(0)
    ELSE FAdd(MolesOf(c, i - 1, streams),
              FMul(FractionOf(args.compositions[i], c), streams[i]))
MolesTable(streams) ==
    Table([c \in Aga8Names |-> MolesOf(c, Len(args.compositions), streams)])
\* the composition holds 100 n_c / sum of n_k for every component c
PercentsAre(composition, moles, total) ==
    \A c \in Aga8Names :
        Same(PercentIn(composition, c), FDiv(FMul(R(100), moles[c]), total))
PercentsFollow(composition, moles) ==
    PercentsAre(composition, moles, SumOver(moles, Aga8Names))

MixExample1 ==
    /\ pc = "done" /\ op = "mix"
    /\ adapter.equation = "GERG-2008"
    /\ args.compositions = <<gas_A, gas_D>>
    /\ args.mix_weights = <<R(50), R(50)>>

MixDone == pc = "done" /\ op = "mix"

LengthMismatch == Len(args.compositions) # Len(args.mix_weights)
NoComposition == Len(args.compositions) = 0
InvalidComponent ==
    \E i \in DOMAIN args.compositions :
        \E k \in DOMAIN args.compositions[i] : args.compositions[i][k][1] \notin Aga8Names
ZeroCompositionSum ==
    \E i \in DOMAIN args.compositions : IsZero(sum(Values(args.compositions[i])))
PreconditionViolated ==
    LengthMismatch \/ NoComposition \/ InvalidComponent \/ ZeroCompositionSum

\* the keys of all input compositions
UnionOfKeys ==
    UNION {{args.compositions[i][k][1] : k \in DOMAIN args.compositions[i]} :
              i \in DOMAIN args.compositions}

\* the result is the all-NaN MixResult over the keys of the inputs
IsAllNaNResult ==
    /\ ~result.raised
    /\ IsNaN(result.value.total_mass)
    /\ DOMAIN result.value.composition = UnionOfKeys
    /\ \A c \in DOMAIN result.value.composition : IsNaN(result.value.composition[c])

\* C11: when the lists differ in length, no composition is given, a
\* component is outside the 21 names or a composition sums to zero, mix
\* with check_input raises a ValueError that tells which, and without
\* check_input raises nothing and returns total_mass NaN and a composition
\* whose keys are exactly the keys of the inputs and whose values are NaN.
C11_PreconditionViolations ==
    (MixDone /\ PreconditionViolated) =>
        IF args.check_input
        THEN /\ result.raised /\ result.exc = "ValueError"
             /\ result.what \in {"length", "empty", "component", "zero_sum"}
             /\ LengthMismatch => result.what = "length"
             /\ result.what = "length" => LengthMismatch
             /\ result.what = "empty" => NoComposition
             /\ result.what = "component" => InvalidComponent
             /\ result.what = "zero_sum" => ZeroCompositionSum
        ELSE IsAllNaNResult

C11_Witness ==
    /\ MixDone /\ ~args.check_input
    /\ ~LengthMismatch /\ ~InvalidComponent /\ ZeroCompositionSum
    /\ Len(args.compositions) = 2
    /\ Cardinality(UnionOfKeys) > 1
    /\ IsAllNaNResult

\* the signed mixing gives some component a negative mole count, a negative
\* total mass, or no moles at all
NegativeMoles(moles) == {c \in Aga8Names : Lt0(moles[c])}
NonPhysical(moles) ==
    \/ NegativeMoles(moles) # {}
    \/ Lt0(SignedSum(args.mix_weights))
    \/ IsZero(SumOver(moles, Aga8Names))
RejectedAsNonPhysical(moles) ==
    IF args.check_input
    THEN /\ result.raised /\ result.exc = "ValueError"
         /\ result.what \in {"negative_moles", "negative_mass", "zero_moles"}
         /\ NegativeMoles(moles) # {} =>
               result.what = "negative_moles" /\ result.info = NegativeMoles(moles)
    ELSE IsAllNaNResult
NoBadPercent ==
    (~result.raised /\ ~IsAllNaNResult) =>
        \A c \in DOMAIN result.value.composition : Gt0(result.value.composition[c])
NonPhysicalHandled(moles) ==
    /\ NonPhysical(moles) => RejectedAsNonPhysical(moles)
    /\ NoBadPercent

\* C12: when signed mixing of otherwise valid inputs leaves a component
\* with negative moles, a negative total mass or a total of zero moles, mix
\* with check_input raises a ValueError, which for negative moles names
\* exactly the components whose mole count is negative, and without
\* check_input returns the all-NaN result; no other result holds a negative
\* or undefined mole percent.
C12_NonPhysicalOutcomes ==
    (MixDone /\ ValidMixInputs) => NonPhysicalHandled(MolesTable(MolesPerStream))

\* methane is taken out of a stream that holds none of it
C12_Witness ==
    /\ MixDone /\ ValidMixInputs /\ args.check_input
    /\ args.compositions = <<gas_H2, gas_A>>
    /\ Gt0(SignedSum(args.mix_weights))
    /\ result.raised /\ result.what = "negative_moles"
    /\ <<"C", "1">> \in result.info /\ <<"H", "2">> \notin result.info

\* one valid composition, put in at mass m > 0 and taken out at mass m
MixedWithItself ==
    /\ MixDone /\ ~args.check_input /\ ValidMixInputs
    /\ Len(args.compositions) = 2
    /\ args.compositions[1] = args.compositions[2]
    /\ Gt0(args.mix_weights[1])
    /\ Same(args.mix_weights[2], NumNeg(args.mix_weights[1]))
AllValuesNaN ==
    /\ ~result.raised
    /\ \A c \in DOMAIN result.value.composition : IsNaN(result.value.composition[c])

\* C13 as stated: mixing a composition with itself at masses [m, -m]
\* without check_input yields total mass 0 and a composition whose values
\* are all NaN.
C13_SelfCancellingMixHasMassZero ==
    MixedWithItself => (AllValuesNaN /\ Same(result.value.total_mass, R(0)))

\* C13 amended: mixing a composition with itself at masses [m, -m] without
\* check_input yields the all-NaN result: total mass NaN and, under every
\* key of the composition, the value NaN.
C13_SelfCancellingMixIsAllNaN ==
    MixedWithItself => IsAllNaNResult

C13_Witness ==
    /\ MixedWithItself /\ args.compositions[1] = gas_A
    /\ IsAllNaNResult
    /\ Cardinality(DOMAIN result.value.composition) = 4

(***************************************************************************)
(* Order and grouping of the streams of a mix, under SpecMix.              *)
(***************************************************************************)
\* a returned composition, given back to mix as an input composition
RECURSIVE ItemsFrom(_, _)
ItemsFrom(f, j) ==
    IF j > n_components THEN <<>>
    ELSE (IF aga8_component_list[j] \in DOMAIN f
          THEN << <<aga8_component_list[j], f[aga8_component_list[j]]>> >>
          ELSE <<>>) \o ItemsFrom(f, j + 1)
AsComposition(f) == ItemsFrom(f, 1)

SameValue(x, y) == IF IsNaN(x) \/ IsNaN(y) THEN IsNaN(x) /\ IsNaN(y) ELSE Same(x, y)
\* the same composition and the same total mass
SameMixResult(r1, r2) ==
    /\ SameValue(r1.total_mass, r2.total_mass)
    /\ DOMAIN r1.composition = DOMAIN r2.composition
    /\ \A c \in DOMAIN r1.composition : SameValue(r1.composition[c], r2.composition[c])
IsErrorResult(r) == IsNaN(r.total_mass)
\* the same exception for the same reason, or the same returned result
SameOutcome(o1, o2) ==
    IF o1.raised \/ o2.raised
    THEN /\ o1.raised /\ o2.raised
         /\ o1.exc = o2.exc /\ o1.what = o2.what
         /\ o1.what = "negative_moles" => o1.info = o2.info
    ELSE SameMixResult(o1.value, o2.value)
\* as SameOutcome, where two all-NaN results need not have the same keys
SameOutcomeOrBothErrors(o1, o2) ==
    \/ SameOutcome(o1, o2)
    \/ /\ ~o1.raised /\ ~o2.raised
       /\ IsErrorResult(o1.value) /\ IsErrorResult(o2.value)

Swap(s, i) == [s EXCEPT ![i] = s[i + 1], ![i + 1] = s[i]]
\* exchanging two neighbouring (composition, mass) pairs leaves the outcome
\* unchanged; such exchanges generate every permutation
OrderIndependent ==
    (MixDone /\ ~LengthMismatch) =>
        \A i \in 1 .. Len(args.compositions) - 1 :
            SameOutcome(result, mix(adapter, Swap(args.compositions, i),
                                    Swap(args.mix_weights, i), args.check_input))

\* mix([A, B, C], [a, b, c]) for the stream (A, a) and the call (B, C), (b, c)
WholeMix(st) ==
    mix(adapter, <<st[1]>> \o args.compositions, <<st[2]>> \o args.mix_weights,
        args.check_input)
\* mix([A, R], [a, M]) where (R, M) is what the call returned
NestedMix(st) ==
    mix(adapter, <<st[1], AsComposition(result.value.composition)>>,
        <<st[2], result.value.total_mass>>, args.check_input)
ValidStream(st) ==
    /\ Keys(st[1]) \subseteq Aga8Names /\ NonNegative(st[1])
    /\ ~IsZero(sum(Values(st[1]))) /\ IsNum(st[2])
ValidStreams == {st \in MixStreams : ValidStream(st)}
InnerMix ==
    /\ MixDone /\ ValidMixInputs /\ Len(args.compositions) = 2
    /\ ~result.raised

\* C14 as stated: mix is order-independent and associative: permuting the
\* (composition, mass) pairs leaves the result unchanged, and
\* mix([A, B, C], [a, b, c]) has the same composition and total mass as
\* mix([A, R], [a, M]) where (R, M) = mix([B, C], [b, c]).
C14_OrderIndependentAndAssociative ==
    /\ OrderIndependent
    /\ InnerMix =>
          \A st \in ValidStreams : SameOutcomeOrBothErrors(WholeMix(st), NestedMix(st))

\* C14 amended: permuting the (composition, mass) pairs leaves the outcome
\* unchanged, and whenever mix([B, C], [b, c]) returns a non-error result
\* (R, M) for valid inputs, mix([A, B, C], [a, b, c]) and
\* mix([A, R], [a, M]) raise the same error, or both return the all-NaN
\* result, or return the same composition and total mass.
C14_AssociativeOverNonErrorInnerMix ==
    /\ OrderIndependent
    /\ (InnerMix /\ ~IsErrorResult(result.value)) =>
          \A st \in ValidStreams : SameOutcomeOrBothErrors(WholeMix(st), NestedMix(st))

\* gas_A is mixed with the mix of hydrogen and gas_D
C14_Witness ==
    /\ InnerMix /\ ~IsErrorResult(result.value)
    /\ args.compositions = <<gas_H2, gas_D>>
    /\ ~WholeMix(<<gas_A, R(50)>>).raised
    /\ Cardinality(DOMAIN WholeMix(<<gas_A, R(50)>>).value.composition) = 5
    /\ SameOutcome(WholeMix(<<gas_A, R(50)>>), NestedMix(<<gas_A, R(50)>>))
    /\ SameOutcome(result, mix(adapter, <<gas_D, gas_H2>>, Swap(args.mix_weights, 1),
                               args.check_input))

\* a composition with every value multiplied by the constant
Rescaled(composition, factor) ==
    [k \in DOMAIN composition |-> <<composition[k][1], FMul(composition[k][2], factor)>>]
\* from mole percent to mole fractions, and an arbitrary enlargement
ScaleFactors == {Q(1, 100), R(7)}
RescaledCall(i, factor) ==
    mix(adapter, [args.compositions EXCEPT ![i] = Rescaled(args.compositions[i], factor)],
        args.mix_weights, args.check_input)

\* C15: multiplying the values of any one input composition of mix by a
\* positive constant leaves the outcome unchanged.
C15_RescalingInvariance ==
    (MixDone /\ ~LengthMismatch) =>
        \A i \in DOMAIN args.compositions : \A factor \in ScaleFactors :
            SameOutcome(result, RescaledCall(i, factor))

\* gas_D given in mole fractions, mixed with gas_A in mole percent
C15_Witness ==
    /\ MixExample1 /\ MixReturned
    /\ Same(Rescaled(gas_D, Q(1, 100))[2][2], Q(8, 10))
    /\ ~RescaledCall(2, Q(1, 100)).raised
    /\ SameMixResult(result.value, RescaledCall(2, Q(1, 100)).value)

(***************************************************************************)
(* Properties of the mass density and the molar mass, under Spec.          *)
(***************************************************************************)
PTReturned == pc = "done" /\ op = "calculate_from_PT" /\ ~result.raised
\* the same call on a fresh instance, without a molar mass
WithoutOverride ==
    calculate_from_PT(NewAdapter(adapter.equation), args.composition, args.pressure,
                      args.temperature, args.pressure_unit, args.temperature_unit,
                      None).out
SameButRho(results, others) ==
    /\ DOMAIN results = DOMAIN others
    /\ \A f \in DOMAIN results \ {"rho"} : results[f] = others[f]

\* C18: the rho calculate_from_PT returns is d times the engine's mm when
\* no molar_mass is supplied and d times the supplied molar_mass otherwise,
\* and then every other field, mm and d included, is as without the
\* override.
C18_MassDensityFromMolarMass ==
    PTReturned =>
        IF args.molar_mass = None
        THEN result.value["rho"] = FMul(result.value["d"], result.value["mm"])
        ELSE /\ result.value["rho"] = FMul(result.value["d"], args.molar_mass)
             /\ ~WithoutOverride.raised
             /\ SameButRho(result.value, WithoutOverride.value)

C18_Witness ==
    /\ PTReturned /\ args.molar_mass = R(18)
    /\ ~IsNaN(result.value["d"])
    /\ IsNum(result.value["mm"]) /\ ~Same(result.value["mm"], R(18))
    /\ result.value["rho"] # WithoutOverride.value["rho"]

\* the molar mass calculate_from_rhoT divides by is zero: it is supplied as
\* zero, or the engine computes it from a composition without any amount
AllValuesZero(composition) == \A i \in DOMAIN composition : IsZero(composition[i][2])
ZeroMolarMass ==
    IF args.molar_mass = None THEN AllValuesZero(args.composition)
    ELSE IsZero(args.molar_mass)
\* neither a pressure nor a property has been computed on the engine
EngineNotRun ==
    \A a \in ComputedAttrs \cup {"d", "pressure", "temperature"} :
        adapter.attrs[a] = NewAdapter(adapter.equation).attrs[a]
RhoTZeroMolarMass ==
    /\ pc = "done" /\ op = "calculate_from_rhoT"
    /\ UnitsSupported /\ NamesRecognized(args.composition)
    /\ ~SomeInputNaN
    /\ ZeroMolarMass

\* C19: calculate_from_rhoT with non-NaN inputs whose molar mass, computed
\* by the engine or supplied, is exactly zero runs neither the pressure nor
\* the property calculation of the engine, raises nothing and returns a
\* result without any field.
C19_ZeroMolarMassGivesEmptyResult ==
    RhoTZeroMolarMass => (~result.raised /\ result.value = <<>> /\ EngineNotRun)

(***************************************************************************)
(* Properties of the Venturi flow calculation, under SpecVenturi.          *)
(***************************************************************************)
VenturiDone == pc = "done" /\ op = "calculate_flow_venturi"
\* the outcome of the same call when check_input has the given value
VenturiWith(check_input) ==
    calculate_flow_venturi(args.D, args.d, args.dP, args.rho1, args.C, args.epsilon,
                           check_input)
EveryValueNaN(o) == ~o.raised /\ \A f \in DOMAIN o.value : IsNaN(o.value[f])

\* C20: check_input only switches calculate_flow_venturi between raising
\* and returning NaN: the inputs that raise with check_input are exactly
\* those for which the call without check_input returns the dictionary with
\* every value NaN, and without check_input no input raises.
C20_CheckInputOnlySwitchesRaiseAndNaN ==
    VenturiDone =>
        /\ VenturiWith(TRUE).raised <=> EveryValueNaN(VenturiWith(FALSE))
        /\ ~args.check_input => ~result.raised

(***************************************************************************)
(* Properties of two concurrent queries, under SpecConcurrent.             *)
(***************************************************************************)
ThreadDone(t) == pc[t] = Len(PTSteps)

\* what the call returns when it runs alone on a fresh instance
SequentialResult(call) ==
    calculate_from_PT(NewAdapter("GERG-2008"), call.composition, call.pressure,
                      call.temperature, call.pressure_unit, call.temperature_unit,
                      call.molar_mass).out

\* the returned state point is the pressure of one of the calls and the
\* temperature of one of the calls
StatePointOfSomeCall(r) ==
    /\ \E u \in Threads :
          Same(r["pressure_bara"], FDiv(PTLocals(args.calls[u]).pressure_kPa, R(100)))
    /\ \E u \in Threads :
          Same(r["temperature_C"],
               FSub(PTLocals(args.calls[u]).temperature_K, KELVIN_OFFSET))

\* C21: when the statements of two calculate_from_PT calls on one instance
\* interleave freely, a finished call echoes its own composition but reports
\* a state point taken from either call; when each sequence runs under
\* mutual exclusion, or each thread has its own instance, every finished call
\* returns exactly what it returns when run alone.
C21_OnlyExclusiveSequencesAreSequential ==
    \A t \in Threads :
        ThreadDone(t) =>
            IF args.mode = "shared"
            THEN /\ ~result[t].raised
                 /\ result[t].value["gas_composition"] = PTLocals(args.calls[t]).dict
                 /\ StatePointOfSomeCall(result[t].value)
            ELSE result[t] = SequentialResult(args.calls[t])

\* a call on the shared instance returns the density of the other call's
\* composition, pressure and temperature
C21_Witness ==
    /\ args.mode = "shared"
    /\ ThreadDone(1)
    /\ args.calls[1].composition # args.calls[2].composition
    /\ args.calls[1].pressure # args.calls[2].pressure
    /\ args.calls[1].temperature # args.calls[2].temperature
    /\ result[1].value["d"] = SequentialResult(args.calls[2]).value["d"]
    /\ result[1].value["d"] # SequentialResult(args.calls[1]).value["d"]
    /\ result[1].value["gas_composition"] = PTLocals(args.calls[1]).dict

(***************************************************************************)
(* Properties of sequences of calls on one instance, under SpecSequence.   *)
(***************************************************************************)
\* what the call o(a) returns on a freshly constructed instance
FreshResult(equation, o, a, temperature_solution) ==
    CASE o = "calculate_from_PT" ->
            calculate_from_PT(NewAdapter(equation), a.composition, a.pressure,
                              a.temperature, a.pressure_unit, a.temperature_unit,
                              a.molar_mass).out
      [] o = "calculate_from_rhoT" ->
            calculate_from_rhoT(NewAdapter(equation), a.composition, a.mass_density,
                                a.temperature, a.temperature_unit, a.molar_mass).out
      [] o = "calculate_from_PH" ->
            calculate_from_PH(NewAdapter(equation), a.composition, a.pressure, a.target,
                              a.pressure_unit, a.molar_mass, temperature_solution).out
      [] o = "calculate_from_PS" ->
            calculate_from_PS(NewAdapter(equation), a.composition, a.pressure, a.target,
                              a.pressure_unit, a.molar_mass, temperature_solution).out

\* C22: whatever calls were made before on the instance (queries that ran the
\* engine, NaN short-circuits, the zero-molar-mass return of
\* calculate_from_rhoT, calls that raised, mix), a query returns what the same
\* query returns on a freshly constructed instance of the same equation, and
\* no call changes the equation of the instance.
C22_EarlierCallsLeaveNoTrace ==
    [][/\ adapter'.equation = adapter.equation
       /\ op' \in QueryOps =>
             \E temperature_solution \in SolverTemperatures :
                 result' = FreshResult(adapter.equation, op', args', temperature_solution)]_vars

\* a valid calculate_from_PT made as the second call, on an engine that an
\* earlier call has used
C22_Witness ==
    /\ pc >= 2
    /\ op = "calculate_from_PT"
    /\ args = BasePT
    /\ ~result.raised
    /\ ~IsNaN(result.value["pressure_bara"])
    /\ result = FreshResult(adapter.equation, op, args, R(20))

(***************************************************************************)
(* Properties of the caller's objects, under SpecFrame.                    *)
(***************************************************************************)
\* the references to mappings in a returned value
ReturnedMappings(o, r) ==
    IF r.raised THEN {}
    ELSE IF o = "to_aga8_composition" THEN {r.value.dict}
    ELSE IF o = "mix" THEN {r.value.composition}
    ELSE IF "gas_composition" \in DOMAIN r.value THEN {r.value["gas_composition"]}
    ELSE {}

\* C23: a call of to_aga8_composition, of a query or of mix leaves every
\* object the caller had before the call as it was (the composition
\* mappings, the list of them and the list of masses), whether it returns,
\* short-circuits on NaN or raises, and the mapping it returns (the echoed
\* gas_composition, the composition of the mix result) is an object that did
\* not exist before the call.
C23_InputsUnchangedAndResultsNew ==
    [][/\ args' = args
       /\ \A r \in DOMAIN adapter.heap :
             r \in DOMAIN adapter'.heap /\ adapter'.heap[r] = adapter.heap[r]
       /\ \A r \in ReturnedMappings(op, result') :
             r \in DOMAIN adapter'.heap /\ r \notin DOMAIN adapter.heap]_vars

\* a mix of two mappings has returned a result whose composition is a new
\* object, with the two mappings and the two lists still on the heap
C23_Witness ==
    /\ pc = "done" /\ op = "mix" /\ ~result.raised
    /\ Len(adapter.heap) = 5
    /\ result.value.composition = 5
    /\ adapter.heap[1] = gas_A /\ adapter.heap[2] = gas_D
    /\ adapter.heap[args.compositions] = <<1, 2>>
    /\ adapter.heap[args.mix_weights] = <<R(50), R(50)>>

(***************************************************************************)
(* Properties of the inverse queries, under SpecSolveLive.                 *)
(***************************************************************************)
SolveInputNaN ==
    \/ IsNaN(args.pressure)
    \/ IsNaN(args.target)
    \/ AnyNaN(args.composition)
SolveEnded == pc.at = "done"

\* C24: calculate_from_PH and calculate_from_PS end.  For inputs that are
\* not NaN the outcome is that of one calculate_from_PT at the requested
\* pressure and at the last temperature the root finder produced from the
\* guess of 20 C, converged or not: no error is added when the root finder
\* did not converge, and a returned pressure is the requested pressure.
C24_EndsWithOneFinalPT ==
    /\ <>SolveEnded
    /\ [](SolveEnded /\ ~SolveInputNaN =>
            /\ result = solve_PT(NewAdapter(adapter.equation), args, pc.temperature).out
            /\ ~result.raised =>
                  /\ Same(result.value["pressure_bara"],
                          FDiv(pressure_unit_conversion(args.pressure,
                                                        args.pressure_unit).value,
                               R(100)))
                  /\ Same(result.value["temperature_C"], pc.temperature))

\* calculate_from_PH has returned after the root finder used up its
\* evaluations without converging, at an iterate other than the guess
C24_Witness ==
    /\ SolveEnded /\ op = "calculate_from_PH" /\ ~SolveInputNaN
    /\ pc.evaluations = MaxEvaluations
    /\ ~pc.converged
    /\ pc.temperature # R(20)
    /\ ~result.raised
    /\ Same(result.value["pressure_bara"], args.pressure)

(***************************************************************************)
(* Properties of the mixer's two reporting modes, under SpecMixEdge.       *)
(***************************************************************************)
\* the outcome of the same call with the other value of check_input
OtherMode == mix(adapter, args.compositions, args.mix_weights, ~args.check_input)
Checked == IF args.check_input THEN result ELSE OtherMode
Unchecked == IF args.check_input THEN OtherMode ELSE result

IsAllNaNOutcome(o) ==
    /\ ~o.raised
    /\ IsNaN(o.value.total_mass)
    /\ DOMAIN o.value.composition = UnionOfKeys
    /\ \A c \in DOMAIN o.value.composition : IsNaN(o.value.composition[c])

\* C25: check_input changes only how mix reports a rejection.  On every
\* input, mix with check_input=True raises exactly when mix with
\* check_input=False returns the all-NaN MixResult, and where the checked
\* call returns a result the unchecked call returns the same composition
\* and the same total mass.
C25_CheckInputOnlyChangesTheReport ==
    MixDone =>
        /\ Checked.raised <=> IsAllNaNOutcome(Unchecked)
        /\ ~Checked.raised => Unchecked = Checked

\* a checked call has returned the mix of two valid streams, and the
\* unchecked call returns the same
C25_Witness ==
    /\ MixDone /\ args.check_input
    /\ args.compositions = <<gas_A, gas_D>>
    /\ args.mix_weights = <<R(50), R(50)>>
    /\ ~result.raised
    /\ DOMAIN result.value.composition # {}
    /\ Unchecked = result

(***************************************************************************)
(* Mass along the component moles of the mixer, under SpecMix.             *)
(***************************************************************************)
\* the component moles mix computes from normalised compositions
MolesFromNormalized(normalized) ==
    component_moles(moles_matrix(normalized,
        total_moles_array(args.mix_weights,
            avg_mw_array(normalized, molecular_weights(adapter.equation)))))
MixComponentMoles ==
    MolesFromNormalized(comp_matrix_normalized(comp_matrix(args.compositions),
                                               comp_sums(comp_matrix(args.compositions))))
\* sum of n_c MW_c / 1000 [kg] over the components c of S
RECURSIVE MassOver(_, _)
MassOver(moles, S) ==
    IF S = {} THEN R(0)
    ELSE FAdd(FDiv(FMul(moles[component_index(CHOOSE c \in S : TRUE)],
                        MWOf(CHOOSE c \in S : TRUE)),
                   R(1000)),
              MassOver(moles, S \ {CHOOSE c \in S : TRUE}))
\* the components outside the input compositions have no moles
MassOfMoles(moles) == MassOver(moles, UnionOfKeys)
MassConserved(moles, mass) ==
    /\ \A c \in Aga8Names \ UnionOfKeys : IsZero(moles[component_index(c)])
    /\ Same(mass, SignedSum(args.mix_weights))
    /\ MixReturned => Same(result.value.total_mass, mass)

\* C26: for valid inputs the component moles of mix carry the mass that is
\* reported: the sum over the components of n_c MW_c / 1000 is the signed sum
\* of the input masses, for masses put in and masses taken out alike, and it
\* is the total_mass of a returned result.
C26_MassConservedAlongMoles ==
    (MixDone /\ ValidMixInputs) =>
        \E moles \in {MixComponentMoles} : MassConserved(moles, MassOfMoles(moles))

\* a mix of two different compositions, one put in and one taken out, has
\* returned a result
C26_Witness ==
    /\ MixReturned /\ ValidMixInputs
    /\ args.compositions = <<gas_D, gas_A>>
    /\ args.mix_weights = <<R(50), R(-10)>>
    /\ Same(MassOfMoles(MixComponentMoles), R(40))

(***************************************************************************)
(* The two non-physical errors of the checked mixer, under SpecMixEdge.    *)
(***************************************************************************)
NegativeMassRaised == result.raised /\ result.what = "negative_mass"
NegativeMolesRaised == result.raised /\ result.what = "negative_moles"

OrificeDone == pc = "done" /\ op = "calculate_C_orifice_ReaderHarrisGallagher"
\* a positive Reynolds number and a diameter ratio below 1
OrificeNumbersValid == Gt0(args.Re) /\ NumCmp(args.beta, R(1)) < 0
DocumentedTappings ==
    {Str(tapping_corner), Str(tapping_D), Str(tapping_D_2), Str(tapping_flange)}
\* the tapping lengths the returned coefficient was evaluated with
TappedAt(L1, L2) ==
    /\ Same(result.value.a[3], L1)
    /\ Same(result.value.a[4], FDiv(FMul(R(2), L2), FSub(R(1), args.beta)))

\* C28: for the tappings 'corner', 'D', 'D/2' and 'flange' the function
\* returns a discharge coefficient that is a number, for 'D' and 'D/2' the
\* one of L1 = 1.0 and L2 = 0.47, and it returns NaN or raises over the
\* tapping only for a tapping outside these four.
C28_DocumentedTappingsAccepted ==
    (OrificeDone /\ OrificeNumbersValid) =>
        /\ args.tapping \in DocumentedTappings =>
              /\ ~result.raised
              /\ ~IsNaN(result.value)
        /\ args.tapping \in {Str(tapping_D), Str(tapping_D_2)} =>
              /\ ~result.raised
              /\ ~IsNaN(result.value)
              /\ TappedAt(R(1), Q(47, 100))
        /\ (result.raised \/ IsNaN(result.value)) => args.tapping \notin DocumentedTappings

(***************************************************************************)
(* The queries on a composition whose values sum to zero, under Spec.      *)
(***************************************************************************)
\* C27: a query called with supported units on a composition whose values
\* sum to zero (every value 0, for one) lets no division by zero escape from
\* to_aga8_composition or from itself, and returns a result whose numeric
\* fields are NaN.
C27_ZeroSumCompositionTolerated ==
    (/\ pc = "done" /\ op \in QueryOps
     /\ UnitsSupported
     /\ SumIsZero(args.composition))
    => (~result.raised /\ AllFieldsNaN(result.value))

(***************************************************************************)
(* The shapes of an unchecked mix result, under SpecMixEdge.               *)
(***************************************************************************)
\* a finite total mass with a non-empty composition of positive values that
\* sum to 100
IsMixtureResult(r) ==
    /\ IsNum(r.total_mass)
    /\ DOMAIN r.composition # {}
    /\ \A c \in DOMAIN r.composition : Gt0(r.composition[c])
    /\ Same(SumOver(r.composition, DOMAIN r.composition), R(100))

\* C30: with check_input=False mix raises nothing and returns either the
\* all-NaN MixResult over the input component names or a mixture result;
\* it returns no other shape, also when a mass or a composition value is NaN.
C30_UncheckedResultHasOneOfTwoShapes ==
    (MixDone /\ ~args.check_input) =>
        /\ ~result.raised
        /\ IsAllNaNOutcome(result) \/ IsMixtureResult(result.value)
====
